---- MODULE Spec2Model ----
(***************************************************************************)
(* Notification escalation, message queue and trading-signal parser of the *)
(* forex message scraper.                                                  *)
(*                                                                         *)
(* Spec     : the notifiers (FCMNotifier, FCMv1Notifier, PushbulletNotifier)*)
(*            serving send_notification calls and running the escalation   *)
(*            coroutines those calls spawn with asyncio.create_task.       *)
(* JobSpec  : Spec plus the escalation coroutine invoked directly, under   *)
(*            weak fairness of the event loop's task steps.                *)
(* AppSpec  : ForexMessageScraperApp's message queue and its consumer task, *)
(*            the notifier seen through the result of send_notification,   *)
(*            and the shutdown paths of the start command.                 *)
(* ParserSpec: TradingSignalParser's extract_trading_signal,               *)
(*            format_signal_summary, is_forex_related and _validate_signal *)
(*            applied to texts and records, character by character.        *)
(*                                                                         *)
(* An alert text is a sequence of word tokens; str.upper() and the         *)
(* substring test `'FOREX' in s` are computed token by token over the      *)
(* vocabulary below.                                                       *)
(* An id is a sequence of string parts, so that an f-string concatenation  *)
(* is a sequence concatenation.                                            *)
(***************************************************************************)
EXTENDS Integers, Sequences, FiniteSets, TLC

VARIABLES notifier, duration, test_mode, configured, call, job, spawned, followups,
          is_running, message_queue, consumer, arrived, handled, raised,
          processed_messages, trading_signals_processed, main, drain, at_stop, cleanup, sends,
          input, result, summary, rescan, forex_related, validation, parser_pc

\* the notifier object and the escalation coroutines
notifVars == <<notifier, duration, test_mode, configured, call, job, spawned, followups>>

\* ForexMessageScraperApp
appVars == <<is_running, message_queue, consumer, arrived, handled, raised,
             processed_messages, trading_signals_processed, main, drain, at_stop, cleanup, sends>>

\* TradingSignalParser: the argument and the result of each call
parserVars == <<input, result, summary, rescan, forex_related, validation, parser_pc>>

vars == <<notifVars, appVars, parserVars>>

-----------------------------------------------------------------------------
(* Bounds *)

MaxCalls == 2

MaxMsgs == 2

Calls == 1..MaxCalls

Notifiers == {"FCMNotifier", "FCMv1Notifier", "PushbulletNotifier"}

\* configured notifications.duration values: below, at and above the
\* `duration > 5` guard, and on both sides of the two caps
Durations == {0, 5, 6, 17, 30, 45}

-----------------------------------------------------------------------------
(* Texts *)

\* str.upper() on one word
Upper(w) ==
    CASE w = "forex" -> "FOREX"
      [] w = "Forexlive" -> "FOREXLIVE"
      [] w = "trade" -> "TRADE"
      [] w = "trading" -> "TRADING"
      [] w = "signal" -> "SIGNAL"
      [] w = "hello" -> "HELLO"
      [] w = "weather" -> "WEATHER"
      [] OTHER -> w

\* 'FOREX' in W, for an upper-cased word W
HasFOREX(W) == W \in {"FOREX", "FOREXLIVE"}

\* 'TRADE' in W, for an upper-cased word W ("TRADING" does not contain it)
HasTRADE(W) == W \in {"TRADE"}

\* formatted_message.upper()
UpperText(t) == [k \in 1..Len(t) |-> Upper(t[k])]

ContainsFOREX(t) == \E k \in 1..Len(t) : HasFOREX(UpperText(t)[k])

ContainsTRADE(t) == \E k \in 1..Len(t) : HasTRADE(UpperText(t)[k])

\* 'FOREX' in formatted_message.upper() or 'TRADE' in formatted_message.upper()
IsForexAlert(t) == ContainsFOREX(t) \/ ContainsTRADE(t)

NoId == <<>>

\* message_data of call c: with or without an 'id' key
MessageData(c, hasId) ==
    [ id |-> IF hasId THEN <<"msg", ToString(c)>> ELSE NoId,
      source |-> "telegram",
      chat_id |-> c ]

\* message_data.get('id', 'unknown')
GetId(data) == IF data.id = NoId THEN <<"unknown">> ELSE data.id

-----------------------------------------------------------------------------
(* Escalation parameters *)

\* FCMNotifier._send_voice_persistent_notifications: asyncio.sleep(3), duration // 3
VoiceInterval == 3

\* FCMNotifier._send_voice_persistent_notifications: min(..., 8)
VoiceCap == 8

\* FCMv1Notifier._send_persistent_notifications: asyncio.sleep(5), duration // 5
PlainInterval == 5

\* FCMv1Notifier._send_persistent_notifications: min(..., 6)
PlainCap == 6

\* the `duration > 5` guard of both send_notification methods
MinDuration == 5

\* cleanup: timeout_seconds = min(queue_size * 2, 30)
DrainSecondsPerMessage == 2

DrainTimeoutCap == 30

Min(a, b) == IF a < b THEN a ELSE b

Interval(n) == IF n = "FCMNotifier" THEN VoiceInterval ELSE PlainInterval

\* the two caps exchanged
Cap_Swapped(n) == IF n = "FCMNotifier" THEN PlainCap ELSE VoiceCap

Cap(n) == IF n = "FCMNotifier" THEN VoiceCap ELSE PlainCap

\* the count without its cap
FollowUpCount_NoCap(n, d) == d \div Interval(n)

\* follow_ups = min(self.duration // interval, cap)
FollowUpCount(n, d) == Min(d \div Interval(n), Cap(n))

urgency_levels ==
    << <<"URGENT", "FOREX", "ALERT">>,
       <<"CRITICAL", "TRADE", "SIGNAL">>,
       <<"IMMEDIATE", "ACTION", "REQUIRED">>,
       <<"FOREX", "SIGNAL", "WAITING">> >>

\* the label picked by i + 1
UrgencyPrefix_Shifted(i) == urgency_levels[((i + 1) % Len(urgency_levels)) + 1]

\* urgency_levels[i % len(urgency_levels)], i the 0-based loop index
UrgencyPrefix(i) == urgency_levels[(i % Len(urgency_levels)) + 1]

\* follow_up_message of loop index i
FollowUpMessage(n, i, formatted_message) ==
    IF n = "FCMNotifier"
    THEN UrgencyPrefix(i) \o <<"\n\n">> \o formatted_message
    ELSE <<"URGENT:">> \o formatted_message

IdSuffix(n) == IF n = "FCMNotifier" THEN "_voice_followup_" ELSE "_followup_"

\* the copy with another field rewritten beside the id
FollowUpData_SourceRewritten(n, i, message_data) ==
    [message_data EXCEPT !.id = GetId(message_data) \o <<IdSuffix(n), ToString(i + 1)>>,
                         !.source = "followup"]

\* the id suffixed with i in place of i + 1
FollowUpData_ZeroBased(n, i, message_data) ==
    [message_data EXCEPT !.id = GetId(message_data) \o <<IdSuffix(n), ToString(i)>>]

\* follow_up_data = message_data.copy(); follow_up_data['id'] = f"{id}<suffix>{i+1}"
FollowUpData(n, i, message_data) ==
    [message_data EXCEPT !.id = GetId(message_data) \o <<IdSuffix(n), ToString(i + 1)>>]

-----------------------------------------------------------------------------
(* send_notification *)

\* what reaches send_notification: a formatted text and whether message_data has an id
Inputs == { [text |-> <<"FOREX", "SIGNAL", "ALERT">>, hasId |-> TRUE],
            [text |-> <<"new", "trade", "signal">>, hasId |-> FALSE],
            [text |-> <<"trading", "hello", "weather">>, hasId |-> TRUE] }

NoData == [id |-> NoId, source |-> "", chat_id |-> 0]

NoCall == [pc |-> "idle", formatted_message |-> <<>>, message_data |-> NoData,
           result |-> FALSE, path |-> "none"]

NoJob == [pc |-> "none", formatted_message |-> <<>>, message_data |-> NoData,
          i |-> 0, follow_ups |-> 0, sleeps |-> 0]

\* what the initial transport call of notifier n can do
SendOutcomes(n) ==
    CASE n = "FCMNotifier" -> {"ok", "zero_success", "http_error", "timeout", "exception"}
      [] n = "FCMv1Notifier" -> {"ok", "no_response", "exception"}
      [] OTHER -> {"ok", "http_error", "exception"}

\* the branch of send_notification that logs success and returns True
Delivered(outcome) == outcome = "ok"

\* the guard written `duration >= 5`
ShouldEscalate_AtGuard(n, d, formatted_message) ==
    CASE n = "FCMNotifier" -> d >= MinDuration /\ IsForexAlert(formatted_message)
      [] n = "FCMv1Notifier" -> d >= MinDuration
      [] OTHER -> FALSE

\* the guard without the FOREX/TRADE test
ShouldEscalate_NoClassification(n, d, formatted_message) ==
    n # "PushbulletNotifier" /\ d > MinDuration

\* the guard in front of asyncio.create_task in the success branch
ShouldEscalate(n, d, formatted_message) ==
    CASE n = "FCMNotifier" -> d > MinDuration /\ IsForexAlert(formatted_message)
      [] n = "FCMv1Notifier" -> d > MinDuration
      [] OTHER -> FALSE

\* create_task placed in front of the test of the transport's answer
SpawnBranch_Always(outcome) == TRUE

\* the branch of send_notification that holds the create_task statement
SpawnBranch(outcome) == Delivered(outcome)

\* the coroutine awaited in place of create_task
AfterSpawnPc_Awaited == "awaiting_job"

\* where the caller is once create_task has been called: create_task only
\* schedules the coroutine, the next statement is `return True`
AfterSpawnPc == "returned"

\* call slots are taken in order
InOrder(c) == IF c = 1 THEN TRUE ELSE call[c - 1].pc # "idle"

Returned(c, fm, md, res, path) ==
    call' = [call EXCEPT ![c] = [pc |-> "returned", formatted_message |-> fm,
                                 message_data |-> md, result |-> res, path |-> path]]

\* the part of send_notification that follows the transport's answer; leaving
\* the two `async with` blocks on `return True` neither raises nor suspends
Complete(c, fm, md, outcome) ==
    /\ IF SpawnBranch(outcome) /\ ShouldEscalate(notifier, duration, fm)
       THEN /\ job' = [job EXCEPT ![c] = [NoJob EXCEPT !.pc = "created",
                                          !.formatted_message = fm,
                                          !.message_data = md]]
            /\ spawned' = [spawned EXCEPT ![c] = @ + 1]
            /\ call' = [call EXCEPT ![c] = [pc |-> AfterSpawnPc, formatted_message |-> fm,
                                            message_data |-> md,
                                            result |-> Delivered(outcome),
                                            path |-> outcome]]
       ELSE /\ UNCHANGED <<job, spawned>>
            /\ Returned(c, fm, md, Delivered(outcome), outcome)

\* send_notification up to its first await (FCMNotifier, PushbulletNotifier),
\* or as a whole (FCMv1Notifier: messaging.send is a blocking call)
SendNotification(c) ==
    /\ call[c].pc = "idle"
    /\ InOrder(c)
    /\ \E inp \in Inputs :
         LET fm == inp.text
             md == MessageData(c, inp.hasId)
         IN  IF ~configured
             THEN Returned(c, fm, md, FALSE, "not_configured") /\ UNCHANGED <<job, spawned>>
             ELSE IF test_mode
             THEN Returned(c, fm, md, TRUE, "test_mode") /\ UNCHANGED <<job, spawned>>
             ELSE IF notifier = "FCMv1Notifier"
             THEN \E o \in SendOutcomes(notifier) : Complete(c, fm, md, o)
             ELSE /\ call' = [call EXCEPT ![c] = [NoCall EXCEPT !.pc = "posting",
                                                  !.formatted_message = fm,
                                                  !.message_data = md]]
                  /\ UNCHANGED <<job, spawned>>
    /\ UNCHANGED <<notifier, duration, test_mode, configured, followups, appVars, parserVars>>

\* the awaited session.post of send_notification answers
SendResponse(c) ==
    /\ call[c].pc = "posting"
    /\ \E o \in SendOutcomes(notifier) :
         Complete(c, call[c].formatted_message, call[c].message_data, o)
    /\ UNCHANGED <<notifier, duration, test_mode, configured, followups, appVars, parserVars>>

-----------------------------------------------------------------------------
(* The escalation coroutines *)

\* what the transport call of one follow-up can do
FollowUpOutcomes == {"ok", "failed", "exception"}

\* one iteration too many
LoopContinues_OffByOne(i, follow_ups) == i + 1 <= follow_ups

\* `for i in range(follow_ups)`: is there an iteration after iteration i
LoopContinues(i, follow_ups) == i + 1 < follow_ups

\* the state of the job after the attempt of iteration j.i is over
Advance(j) ==
    IF LoopContinues(j.i, j.follow_ups)
    THEN [j EXCEPT !.i = @ + 1, !.pc = "sleeping", !.sleeps = @ + 1]
    ELSE [j EXCEPT !.pc = "done"]

\* does an exception raised by the attempt of a follow-up end the coroutine:
\* FCMNotifier has one try around the loop, FCMv1Notifier one try per attempt
ExceptionEndsJob(n) == n = "FCMNotifier"

\* the state of the job once its attempt has had the given outcome
AfterAttempt(n, j, outcome) ==
    IF outcome = "exception" /\ ExceptionEndsJob(n)
    THEN [j EXCEPT !.pc = "failed"]
    ELSE Advance(j)

\* the event loop runs the created task up to its first await
JobRun(c) ==
    /\ job[c].pc = "created"
    /\ LET k == FollowUpCount(notifier, duration)
       IN  job' = [job EXCEPT ![c] =
                     IF 0 < k
                     THEN [@ EXCEPT !.follow_ups = k, !.pc = "sleeping", !.sleeps = 1]
                     ELSE [@ EXCEPT !.follow_ups = k, !.pc = "done"]]
    /\ UNCHANGED <<notifier, duration, test_mode, configured, call, spawned, followups,
                   appVars, parserVars>>

\* asyncio.sleep returns: the follow-up is built and handed to the transport
JobWake(c) ==
    /\ job[c].pc = "sleeping"
    /\ LET j == job[c]
           fu == [text |-> FollowUpMessage(notifier, j.i, j.formatted_message),
                  data |-> FollowUpData(notifier, j.i, j.message_data)]
       IN  /\ followups' = [followups EXCEPT ![c] = Append(@, fu)]
           /\ IF notifier = "FCMv1Notifier"
              THEN \E o \in FollowUpOutcomes :
                     job' = [job EXCEPT ![c] = AfterAttempt(notifier, j, o)]
              ELSE job' = [job EXCEPT ![c].pc = "posting"]
    /\ UNCHANGED <<notifier, duration, test_mode, configured, call, spawned, appVars,
                   parserVars>>

\* the awaited session.post of a follow-up answers
JobResponse(c) ==
    /\ job[c].pc = "posting"
    /\ \E o \in FollowUpOutcomes :
         job' = [job EXCEPT ![c] = AfterAttempt(notifier, job[c], o)]
    /\ UNCHANGED <<notifier, duration, test_mode, configured, call, spawned, followups,
                   appVars, parserVars>>

\* the coroutine called without send_notification in front of it
InvokeJob(c) ==
    /\ call[c].pc = "idle"
    /\ InOrder(c)
    /\ notifier # "PushbulletNotifier"
    /\ \E inp \in Inputs :
         /\ call' = [call EXCEPT ![c].pc = "direct"]
         /\ job' = [job EXCEPT ![c] = [NoJob EXCEPT !.pc = "created",
                                       !.formatted_message = inp.text,
                                       !.message_data = MessageData(c, inp.hasId)]]
    /\ UNCHANGED <<notifier, duration, test_mode, configured, spawned, followups,
                   appVars, parserVars>>

-----------------------------------------------------------------------------
(* ForexMessageScraperApp: the message queue and its consumer *)

NoMsg == [id |-> 0, is_trading |-> FALSE]

\* the forex_message_processor task, not yet created
NoConsumer == [pc |-> "not_started", msg |-> NoMsg]

\* hasattr(self.notifier, 'send_urgent_alert')
HasUrgentAlert(n) == n \in {"FCMNotifier", "FCMv1Notifier"}

\* what `await self.notifier.send_notification(...)` can hand to process_single_message
NotifyResults ==
    IF ~configured THEN {FALSE}
    ELSE IF test_mode THEN {TRUE}
    ELSE {Delivered(o) : o \in SendOutcomes(notifier)}

\* no handler: the exception ends the forex_message_processor task
AfterException_Propagates(con) == [con EXCEPT !.pc = "dead"]

\* the `except Exception` clause of process_single_message: the error is logged
\* and the method returns to process_message_queue
AfterException(con) == [con EXCEPT !.pc = "task_done"]

\* cleanup has not started _process_remaining_messages
NoDrain == [timeout |-> 0]

\* is_running has not been cleared
NoStop == [handled |-> 0, pc |-> "running"]

\* what the consumer had taken and where it stood when is_running was cleared
Stopped ==
    IF is_running THEN [handled |-> Len(handled), pc |-> consumer.pc] ELSE at_stop

\* cleanup has not been called: its position, what it has done so far and the
\* message _process_remaining_messages is processing
NoCleanup == [pc |-> "idle", log |-> <<>>, msg |-> NoMsg]

\* the process is there: asyncio.run(main()) has not returned
Alive == main # "exited"

\* start_monitoring: is_running = True, then the tasks are created
StartMonitoring ==
    /\ main = "constructed"
    /\ consumer.pc = "not_started"
    /\ is_running' = TRUE
    /\ consumer' = [consumer EXCEPT !.pc = "loop"]
    /\ main' = "monitoring"
    /\ UNCHANGED <<notifVars, parserVars, at_stop, cleanup, sends, drain, message_queue,
                   arrived, handled, raised,
                   processed_messages, trading_signals_processed>>

\* handle_new_message, the scraper's callback
HandleNewMessage ==
    /\ Alive
    /\ consumer.pc # "not_started"
    /\ arrived < MaxMsgs
    /\ \E t \in BOOLEAN :
         message_queue' = Append(message_queue, [id |-> arrived + 1, is_trading |-> t])
    /\ arrived' = arrived + 1
    /\ UNCHANGED <<notifVars, parserVars, at_stop, cleanup, sends, main, drain,
                   is_running, consumer, handled, raised,
                   processed_messages, trading_signals_processed>>

\* a loop that never looks at the flag
LoopCondition_Always(running) == TRUE

\* `while self.is_running:`
LoopCondition(running) == running

\* the loop condition and the start of wait_for(queue.get(), timeout=5.0)
ConsumerLoop ==
    /\ Alive
    /\ consumer.pc = "loop"
    /\ consumer' = [consumer EXCEPT !.pc = IF LoopCondition(is_running) THEN "waiting"
                                          ELSE "exited"]
    /\ UNCHANGED <<notifVars, parserVars, at_stop, cleanup, sends, main, drain,
                   is_running, message_queue, arrived, handled, raised,
                   processed_messages, trading_signals_processed>>

\* a get that leaves the message on the queue
AfterGet_Peek(queue) == queue

\* the queue once get() or get_nowait() has returned its oldest message
AfterGet(queue) == Tail(queue)

\* queue.get() returns the oldest message and process_single_message is entered
ConsumerGet ==
    /\ Alive
    /\ consumer.pc = "waiting"
    /\ message_queue # <<>>
    /\ consumer' = [pc |-> "ai", msg |-> Head(message_queue)]
    /\ message_queue' = AfterGet(message_queue)
    /\ handled' = Append(handled, Head(message_queue).id)
    /\ UNCHANGED <<notifVars, parserVars, at_stop, cleanup, sends, main, drain,
                   is_running, arrived, raised,
                   processed_messages, trading_signals_processed>>

\* asyncio.TimeoutError after 5 seconds of an empty queue: continue
ConsumerTimeout ==
    /\ Alive
    /\ consumer.pc = "waiting"
    /\ message_queue = <<>>
    /\ consumer' = [consumer EXCEPT !.pc = "loop"]
    /\ UNCHANGED <<notifVars, parserVars, at_stop, cleanup, sends, main, drain,
                   is_running, message_queue, arrived, handled, raised,
                   processed_messages, trading_signals_processed>>

\* ai_processor.process_text_message / process_image_message returns or raises
ProcessAI ==
    /\ Alive
    /\ consumer.pc = "ai"
    /\ \E r \in {"text", "exception"} :
         IF r = "exception"
         THEN /\ consumer' = AfterException(consumer)
              /\ raised' = raised \cup {consumer.msg.id}
         ELSE /\ consumer' = [consumer EXCEPT !.pc = "notify"]
              /\ UNCHANGED raised
    /\ UNCHANGED <<notifVars, parserVars, at_stop, cleanup, sends, main, drain,
                   is_running, message_queue, arrived, handled,
                   processed_messages, trading_signals_processed>>

\* every message counted, delivered or not
Counted_Always(notification_sent) == TRUE

\* `if notification_sent:` in front of the two increments
Counted(notification_sent) == notification_sent

\* how one `await send_notification(...)` ends: it returns True or False, or
\* an exception leaves it
SendResults == {IF s THEN "True" ELSE "False" : s \in NotifyResults} \cup {"raised"}

\* the send_notification call of process_single_message
ProcessNotify ==
    /\ Alive
    /\ consumer.pc = "notify"
    /\ \E r \in SendResults :
         /\ sends' = [sends EXCEPT ![consumer.msg.id] = Append(@, r)]
         /\ IF r = "raised"
            THEN /\ consumer' = AfterException(consumer)
                 /\ raised' = raised \cup {consumer.msg.id}
                 /\ UNCHANGED <<processed_messages, trading_signals_processed>>
            ELSE /\ processed_messages' =
                       IF Counted(r = "True") THEN processed_messages + 1
                       ELSE processed_messages
                 /\ trading_signals_processed' =
                       IF Counted(r = "True") /\ consumer.msg.is_trading
                       THEN trading_signals_processed + 1
                       ELSE trading_signals_processed
                 /\ consumer' = [consumer EXCEPT !.pc =
                                    IF r = "False" /\ HasUrgentAlert(notifier)
                                    THEN "alert" ELSE "task_done"]
                 /\ UNCHANGED raised
    /\ UNCHANGED <<notifVars, parserVars, at_stop, cleanup, main, drain, is_running,
                   message_queue, arrived, handled>>

\* an alert that is sent again for as long as it fails
AfterAlert_Retry(con, r) ==
    [con EXCEPT !.pc = IF r = "False" THEN "alert" ELSE "task_done"]

\* the awaited send_urgent_alert has returned r: its value is dropped and the
\* end of process_single_message is reached
AfterAlert(con, r) == [con EXCEPT !.pc = "task_done"]

\* notifier.send_urgent_alert("Trading Notification Failed", ...), which ends
\* on `return await self.send_notification(urgent_message, alert_data)`; its
\* answer is not looked at
ProcessAlert ==
    /\ Alive
    /\ consumer.pc = "alert"
    /\ \E r \in SendResults :
         /\ sends' = [sends EXCEPT ![consumer.msg.id] = Append(@, r)]
         /\ IF r = "raised"
            THEN /\ consumer' = AfterException(consumer)
                 /\ raised' = raised \cup {consumer.msg.id}
            ELSE /\ consumer' = AfterAlert(consumer, r)
                 /\ UNCHANGED raised
    /\ UNCHANGED <<notifVars, parserVars, at_stop, cleanup, main, drain, is_running,
                   message_queue, arrived, handled, processed_messages,
                   trading_signals_processed>>

\* message_queue.task_done(), back to the head of the loop; nothing gets out
\* of process_single_message, so the loop's own `except Exception` stays unused
TaskDone ==
    /\ Alive
    /\ consumer.pc = "task_done"
    /\ consumer' = [pc |-> "loop", msg |-> NoMsg]
    /\ UNCHANGED <<notifVars, parserVars, at_stop, cleanup, sends, main, drain,
                   is_running, message_queue, arrived, handled, raised,
                   processed_messages, trading_signals_processed>>

\* signal_handler: self.is_running = False, then raise KeyboardInterrupt.  It
\* is raised in start_monitoring's try block, or before it (in initialize), or
\* in one of its except clauses, from where it goes on to main() once the
\* finally clause has run.
SignalHandler ==
    /\ main \in {"constructed", "monitoring", "finally"}
    /\ is_running' = FALSE
    /\ at_stop' = Stopped
    /\ main' = CASE main = "constructed" -> "propagated"
                 [] main = "monitoring" -> "KeyboardInterrupt"
                 [] OTHER -> "reraised"
    /\ UNCHANGED <<notifVars, parserVars, cleanup, sends, drain, message_queue,
                   consumer, arrived,
                   handled, raised, processed_messages, trading_signals_processed>>

\* a KeyboardInterrupt that reaches start_monitoring's try block without the
\* signal handler having run
RaiseKeyboardInterrupt ==
    /\ main = "monitoring"
    /\ main' = "KeyboardInterrupt"
    /\ UNCHANGED <<notifVars, parserVars, at_stop, cleanup, sends, drain, is_running,
                   message_queue,
                   consumer, arrived, handled, raised, processed_messages,
                   trading_signals_processed>>

\* `except KeyboardInterrupt: self.is_running = False`, on to the finally clause
ExceptKeyboardInterrupt ==
    /\ main = "KeyboardInterrupt"
    /\ is_running' = FALSE
    /\ at_stop' = Stopped
    /\ main' = "finally"
    /\ UNCHANGED <<notifVars, parserVars, cleanup, sends, drain, message_queue,
                   consumer, arrived,
                   handled, raised, processed_messages, trading_signals_processed>>

\* an exception in the try block: `except Exception: self.is_running = False`,
\* on to the finally clause
MonitoringError ==
    /\ main = "monitoring"
    /\ is_running' = FALSE
    /\ at_stop' = Stopped
    /\ main' = "finally"
    /\ UNCHANGED <<notifVars, parserVars, cleanup, sends, drain, message_queue,
                   consumer, arrived,
                   handled, raised, processed_messages, trading_signals_processed>>

\* main(): `except KeyboardInterrupt: app.is_running = False`, on to its
\* `await app.cleanup()`
MainKeyboardInterrupt ==
    /\ main = "propagated"
    /\ is_running' = FALSE
    /\ at_stop' = Stopped
    /\ main' = "main_except"
    /\ UNCHANGED <<notifVars, parserVars, cleanup, sends, drain, message_queue,
                   consumer, arrived,
                   handled, raised, processed_messages, trading_signals_processed>>

\* min(queue_size * 2, 30)
DrainTimeout(queue_size) == Min(queue_size * DrainSecondsPerMessage, DrainTimeoutCap)

\* the guard dropped: the body runs at every call
ReturnsAtOnce_Never(running) == FALSE

\* `if not self.is_running: return  # Already cleaned up`
ReturnsAtOnce(running) == ~running

\* where the caller of cleanup goes on: a KeyboardInterrupt raised in an except
\* clause of start_monitoring propagates to main() after the finally clause
AfterCleanup(m) == IF m = "reraised" THEN "propagated" ELSE "exited"

\* the send_notification calls of one whole process_single_message, as
\* cleanup awaits it: none when the AI step raises, one, or after a False a
\* second one inside send_urgent_alert
DrainOutcomes ==
    {<<>>}
    \cup {<<r>> : r \in SendResults \ (IF HasUrgentAlert(notifier) THEN {"False"} ELSE {})}
    \cup (IF HasUrgentAlert(notifier) THEN {<<"False", r>> : r \in SendResults} ELSE {})

\* cleanup(), one step of the coroutine at a time: the call, with its guard
\* and `self.is_running = False`; telegram_scraper.stop_monitoring(); with a
\* non-empty queue, _process_remaining_messages under its timeout, message by
\* message; the 'Forex Scraper Offline' alert; the return to the caller.
Cleanup ==
    /\ main \in {"finally", "reraised", "main_except"}
    /\ IF cleanup.pc = "idle"
       THEN /\ IF ReturnsAtOnce(is_running)
               THEN /\ cleanup' = [cleanup EXCEPT !.log = Append(@, "call")]
                    /\ main' = AfterCleanup(main)
                    /\ UNCHANGED <<is_running, at_stop>>
               ELSE /\ cleanup' = [cleanup EXCEPT !.log = Append(@, "call"),
                                                  !.pc = "stop_scraper"]
                    /\ is_running' = FALSE
                    /\ at_stop' = Stopped
                    /\ UNCHANGED main
            /\ UNCHANGED <<drain, message_queue, handled, raised, sends,
                           processed_messages, trading_signals_processed>>
       ELSE IF cleanup.pc = "stop_scraper"
       THEN /\ IF message_queue # <<>>
               THEN /\ cleanup' = [cleanup EXCEPT !.log = @ \o <<"stop_scraper", "drain">>,
                                                  !.pc = "drain"]
                    /\ drain' = [timeout |-> DrainTimeout(Len(message_queue))]
               ELSE /\ cleanup' = [cleanup EXCEPT !.log = Append(@, "stop_scraper"),
                                                  !.pc = "alert"]
                    /\ UNCHANGED drain
            /\ UNCHANGED <<main, is_running, at_stop, message_queue, handled, raised,
                           sends, processed_messages, trading_signals_processed>>
       ELSE IF cleanup.pc = "drain"
       THEN /\ \E timeout \in BOOLEAN :
                 IF timeout \/ message_queue = <<>>
                 THEN /\ cleanup' = [cleanup EXCEPT !.pc = "alert"]
                      /\ UNCHANGED <<message_queue, handled>>
                 ELSE /\ cleanup' = [cleanup EXCEPT !.pc = "drain_process",
                                                    !.msg = Head(message_queue)]
                      /\ message_queue' = AfterGet(message_queue)
                      /\ handled' = Append(handled, Head(message_queue).id)
            /\ UNCHANGED <<main, is_running, at_stop, drain, raised, sends,
                           processed_messages, trading_signals_processed>>
       ELSE IF cleanup.pc = "drain_process"
       THEN /\ \E timeout \in BOOLEAN : \E o \in DrainOutcomes :
                 LET sent == ~timeout /\ o # <<>> /\ o[1] = "True"
                 IN  /\ cleanup' = [cleanup EXCEPT !.pc = IF timeout THEN "alert"
                                                          ELSE "drain",
                                                   !.msg = NoMsg]
                     /\ sends' = [sends EXCEPT ![cleanup.msg.id] =
                                      IF timeout THEN @ ELSE @ \o o]
                     /\ processed_messages' =
                            IF Counted(sent) /\ ~timeout THEN processed_messages + 1
                            ELSE processed_messages
                     /\ trading_signals_processed' =
                            IF Counted(sent) /\ ~timeout /\ cleanup.msg.is_trading
                            THEN trading_signals_processed + 1
                            ELSE trading_signals_processed
                     /\ raised' =
                            IF ~timeout /\ (o = <<>> \/ o[Len(o)] = "raised")
                            THEN raised \cup {cleanup.msg.id} ELSE raised
            /\ UNCHANGED <<main, is_running, at_stop, drain, message_queue, handled>>
       ELSE /\ cleanup' = [cleanup EXCEPT !.pc = "idle",
                                          !.log = IF HasUrgentAlert(notifier)
                                                  THEN Append(@, "alert") ELSE @]
            /\ main' = AfterCleanup(main)
            /\ UNCHANGED <<is_running, at_stop, drain, message_queue, handled, raised,
                           sends, processed_messages, trading_signals_processed>>
    /\ UNCHANGED <<notifVars, parserVars, consumer, arrived>>

ConsumerStep ==
    \/ ConsumerLoop
    \/ ConsumerGet
    \/ ConsumerTimeout
    \/ ProcessAI
    \/ ProcessNotify
    \/ ProcessAlert
    \/ TaskDone

-----------------------------------------------------------------------------
(* TradingSignalParser *)
(*                                                                         *)
(* A string is a sequence of one-character strings, so that `in`,          *)
(* re.search and re.findall are computed position by position.  A float is *)
(* a decimal [m, d], the value m / 10^d without a trailing zero.  None is  *)
(* the empty sequence, and an Optional[float] is <<>> or <<value>>.        *)

None == <<>>

\* [A-Z]
UpperLetters == {"A", "B", "C", "D", "E", "F", "G", "H", "I", "J", "K", "L", "M", "N", "O", "P", "Q", "R", "S", "T", "U", "V", "W", "X", "Y", "Z"}

LowerAlphabet == <<"a", "b", "c", "d", "e", "f", "g", "h", "i", "j", "k", "l", "m", "n", "o", "p", "q", "r", "s", "t", "u", "v", "w", "x", "y", "z">>

UpperAlphabet == <<"A", "B", "C", "D", "E", "F", "G", "H", "I", "J", "K", "L", "M", "N", "O", "P", "Q", "R", "S", "T", "U", "V", "W", "X", "Y", "Z">>

\* \d
Digits == {"0", "1", "2", "3", "4", "5", "6", "7", "8", "9"}

\* \s, for the white space that occurs in the texts
Whitespace == {" ", "\n"}

\* str.upper() on one character
CharUpper(ch) ==
    IF \E k \in 1..Len(LowerAlphabet) : LowerAlphabet[k] = ch
    THEN UpperAlphabet[CHOOSE k \in 1..Len(LowerAlphabet) : LowerAlphabet[k] = ch]
    ELSE ch

\* text.upper()
TextUpper(s) == [k \in 1..Len(s) |-> CharUpper(s[k])]

\* s[i:].startswith(p)
Occurs(p, s, i) ==
    /\ i + Len(p) - 1 <= Len(s)
    /\ \A k \in 1..Len(p) : s[i + k - 1] = p[k]

\* `p in s`, and re.search of a literal
Contains(p, s) == \E i \in 1..Len(s) : Occurs(p, s, i)

\* min() of a non-empty set of integers
Least(S) == CHOOSE x \in S : \A y \in S : x <= y

\* self.forex_pairs, in the order of the list
forex_pairs ==
    << <<"E", "U", "R", "U", "S", "D">>,
       <<"G", "B", "P", "U", "S", "D">>,
       <<"U", "S", "D", "J", "P", "Y">>,
       <<"U", "S", "D", "C", "H", "F">>,
       <<"A", "U", "D", "U", "S", "D">>,
       <<"U", "S", "D", "C", "A", "D">>,
       <<"N", "Z", "D", "U", "S", "D">>,
       <<"E", "U", "R", "J", "P", "Y">>,
       <<"G", "B", "P", "J", "P", "Y">>,
       <<"E", "U", "R", "G", "B", "P">>,
       <<"E", "U", "R", "A", "U", "D">>,
       <<"E", "U", "R", "C", "H", "F">>,
       <<"G", "B", "P", "A", "U", "D">>,
       <<"G", "B", "P", "C", "H", "F">>,
       <<"A", "U", "D", "J", "P", "Y">>,
       <<"C", "A", "D", "J", "P", "Y">>,
       <<"C", "H", "F", "J", "P", "Y">>,
       <<"A", "U", "D", "C", "A", "D">>,
       <<"A", "U", "D", "C", "H", "F">>,
       <<"C", "A", "D", "C", "H", "F">>,
       <<"N", "Z", "D", "J", "P", "Y">>,
       <<"X", "A", "U", "U", "S", "D">>,
       <<"X", "A", "G", "U", "S", "D">>,
       <<"B", "T", "C", "U", "S", "D">>,
       <<"E", "T", "H", "U", "S", "D">>,
       <<"L", "T", "C", "U", "S", "D">>,
       <<"A", "D", "A", "U", "S", "D">> >>

\* patterns = [pair, pair[:3] + '/' + pair[3:], pair[:3] + ' ' + pair[3:],
\*             pair[:3] + '-' + pair[3:]]
PairPatterns(pair) ==
    << pair,
       SubSeq(pair, 1, 3) \o <<"/">> \o SubSeq(pair, 4, 6),
       SubSeq(pair, 1, 3) \o <<" ">> \o SubSeq(pair, 4, 6),
       SubSeq(pair, 1, 3) \o <<"-">> \o SubSeq(pair, 4, 6) >>

\* any(pattern in text for pattern in patterns)
PairFound(pair, text) ==
    \E f \in 1..Len(PairPatterns(pair)) : Contains(PairPatterns(pair)[f], text)

\* ([A-Z]{3})[\/\-\s]([A-Z]{3}) matches at position i
GenericPairAt(text, i) ==
    /\ i + 6 <= Len(text)
    /\ \A k \in {0, 1, 2, 4, 5, 6} : text[i + k] \in UpperLetters
    /\ text[i + 3] \in {"/", "-"} \cup Whitespace

\* the fallback: match.group(1) + match.group(2) of the leftmost of the
\* generic matches, None without one
GenericInstrument(text, generic) ==
    IF generic # {}
    THEN SubSeq(text, Least(generic), Least(generic) + 2)
         \o SubSeq(text, Least(generic) + 4, Least(generic) + 6)
    ELSE None

\* the last of the catalogue entries found instead of the first
FirstInstrument_LastEntry(text, found) ==
    IF found # {} THEN forex_pairs[CHOOSE n \in found : \A m \in found : m <= n]
    ELSE GenericInstrument(text, {i \in 1..Len(text) : GenericPairAt(text, i)})

\* the loop over self.forex_pairs returns at the first entry found; the
\* fallback is reached only when the loop ends without a return
FirstInstrument(text, found) ==
    IF found # {} THEN forex_pairs[Least(found)]
    ELSE GenericInstrument(text, {i \in 1..Len(text) : GenericPairAt(text, i)})

\* _extract_instrument
ExtractInstrument(text) ==
    FirstInstrument(text, {n \in 1..Len(forex_pairs) : PairFound(forex_pairs[n], text)})

BUY == <<"B", "U", "Y">>

SELL == <<"S", "E", "L", "L">>

\* self.direction_patterns, in the order of the dict: the key upper-cased
\* (the value returned) and the alternatives of its regular expression
direction_patterns_SellFirst ==
    << [key |-> SELL, words |-> << <<"S", "E", "L", "L">>, <<"S", "H", "O", "R", "T">>, <<"B", "E", "A", "R", "I", "S", "H">>, <<"D", "O", "W", "N">> >>],
       [key |-> BUY,  words |-> << <<"B", "U", "Y">>, <<"L", "O", "N", "G">>, <<"B", "U", "L", "L", "I", "S", "H">>, <<"U", "P">> >>] >>

direction_patterns ==
    << [key |-> BUY,  words |-> << <<"B", "U", "Y">>, <<"L", "O", "N", "G">>, <<"B", "U", "L", "L", "I", "S", "H">>, <<"U", "P">> >>],
       [key |-> SELL, words |-> << <<"S", "E", "L", "L">>, <<"S", "H", "O", "R", "T">>, <<"B", "E", "A", "R", "I", "S", "H">>, <<"D", "O", "W", "N">> >>] >>

\* re.search(pattern, text) for one direction group
DirectionFound(n, text) ==
    \E w \in 1..Len(direction_patterns[n].words) :
        Contains(direction_patterns[n].words[w], text)

\* _extract_direction: the first group, in dict order, with a match
ExtractDirection(text) ==
    LET found == {n \in 1..Len(direction_patterns) : DirectionFound(n, text)}
    IN  IF found # {} THEN direction_patterns[Least(found)].key ELSE None

\* the digits in the order of their values
DigitChars == <<"0", "1", "2", "3", "4", "5", "6", "7", "8", "9">>

DigitValue(ch) == (CHOOSE v \in 1..Len(DigitChars) : DigitChars[v] = ch) - 1

\* int() of a string of digits, 0 for the empty string
RECURSIVE IntValue(_)
IntValue(ds) ==
    IF ds = <<>> THEN 0
    ELSE 10 * IntValue(SubSeq(ds, 1, Len(ds) - 1)) + DigitValue(ds[Len(ds)])

\* the decimal m / 10^d without trailing zeros in its fraction
RECURSIVE Normalize(_, _)
Normalize(m, d) ==
    IF d > 0 /\ m % 10 = 0 THEN Normalize(m \div 10, d - 1) ELSE [m |-> m, d |-> d]

\* float(s) succeeds: digits with at most one point among or after them, as
\* the price pattern delivers them
Parses(s) ==
    /\ s # <<>>
    /\ s[1] \in Digits
    /\ \A k \in 1..Len(s) : s[k] \in Digits \cup {"."}
    /\ Cardinality({k \in 1..Len(s) : s[k] = "."}) <= 1

\* float(s): the value as a decimal, 1.0850 and 1.085 being the same float
ParseFloat(s) ==
    LET dots == {k \in 1..Len(s) : s[k] = "."}
        point == IF dots = {} THEN Len(s) + 1 ELSE Least(dots)
        whole == SubSeq(s, 1, point - 1)
        fraction == SubSeq(s, point + 1, Len(s))
    IN  Normalize(IntValue(whole \o fraction), Len(fraction))

\* `if x:` for an Optional[float]: None and 0.0 are falsy (for a string and
\* for a list, None and [] are)
TruthyFloat(opt) == opt # None /\ opt[1].m # 0

\* the last position of the run of digits that starts at i, i - 1 if there
\* is no digit at i
DigitRunEnd(text, i) ==
    Least({j \in (i - 1)..Len(text) : j = Len(text) \/ text[j + 1] \notin Digits})

\* \d+ alone: the number ends with its integer part
NumberEnd_IntegerOnly(text, i) == DigitRunEnd(text, i)

\* self.price_pattern \d+\.?\d* matched greedily at the digit at i: its last position
NumberEnd(text, i) ==
    LET a == DigitRunEnd(text, i)
    IN  IF a < Len(text) /\ text[a + 1] = "." THEN DigitRunEnd(text, a + 2) ELSE a

\* the first position from i on that is outside the character class
SkipRun(text, i, class) ==
    Least({j \in i..(Len(text) + 1) : j = Len(text) + 1 \/ text[j] \notin class})

\* self.trading_keywords: each alternative is a pair of literals with \s*
\* between them, the second one empty for a plain word
trading_keywords ==
    [ entry |-> << <<<<"E", "N", "T", "R", "Y">>, <<>>>>,
          <<<<"E", "N", "T", "E", "R">>, <<>>>>,
          <<<<"P", "R", "I", "C", "E">>, <<>>>>,
          <<<<"@">>, <<>>>>,
          <<<<"A", "T">>, <<>>>> >>,
      stop_loss |-> << <<<<"S", "L">>, <<>>>>,
              <<<<"S", "T", "O", "P">>, <<"L", "O", "S", "S">>>>,
              <<<<"S", "T", "O", "P", "L", "O", "S", "S">>, <<>>>>,
              <<<<"S", "T", "O", "P">>, <<>>>> >>,
      take_profit |-> << <<<<"T", "P">>, <<>>>>,
                <<<<"T", "A", "K", "E">>, <<"P", "R", "O", "F", "I", "T">>>>,
                <<<<"T", "A", "K", "E", "P", "R", "O", "F", "I", "T">>, <<>>>>,
                <<<<"T", "A", "R", "G", "E", "T">>, <<>>>>,
                <<<<"T", "G", "T">>, <<>>>> >> ]

\* [:\s]
KeywordSeparators == {":"} \cup Whitespace

\* the position after alternative kw matched at i, 0 without a match
KeywordEnd(kw, text, i) ==
    IF ~Occurs(kw[1], text, i) THEN 0
    ELSE IF kw[2] = <<>> THEN i + Len(kw[1])
    ELSE LET j == SkipRun(text, i + Len(kw[1]), Whitespace)
         IN  IF Occurs(kw[2], text, j) THEN j + Len(kw[2]) ELSE 0

\* alternative kw at i, then separators, then a digit: the position of that
\* digit, 0 without a match
PriceStart(kw, seps, text, i) ==
    IF KeywordEnd(kw, text, i) = 0 THEN 0
    ELSE LET k == SkipRun(text, KeywordEnd(kw, text, i), seps)
         IN  IF k <= Len(text) /\ text[k] \in Digits THEN k ELSE 0

\* (?:kw1|kw2|...)seps*(\d+\.?\d*) matched at i: the span of group 1, <<>>
\* without a match; the alternatives are tried in order
PricedAt(kws, seps, text, i) ==
    LET ok == {a \in 1..Len(kws) : PriceStart(kws[a], seps, text, i) # 0}
    IN  IF ok = {} THEN <<>>
        ELSE LET k == PriceStart(kws[Least(ok)], seps, text, i)
             IN  <<k, NumberEnd(text, k)>>

\* re.search from position `from`: the span of group 1 of the leftmost match
SearchPriced(kws, seps, text, from) ==
    LET at == {i \in from..Len(text) : PricedAt(kws, seps, text, i) # <<>>}
    IN  IF at = {} THEN <<>> ELSE PricedAt(kws, seps, text, Least(at))

\* re.findall: group 1 of every match, each search resuming after the last match
RECURSIVE FindAllPriced(_, _, _, _)
FindAllPriced(kws, seps, text, from) ==
    LET m == SearchPriced(kws, seps, text, from)
    IN  IF m = <<>> THEN <<>>
        ELSE <<SubSeq(text, m[1], m[2])>> \o FindAllPriced(kws, seps, text, m[2] + 1)

\* 0.0 instead of None when nothing matches
FloatOrNone_ZeroDefault(text, m) ==
    IF m # <<>> /\ Parses(SubSeq(text, m[1], m[2]))
    THEN <<ParseFloat(SubSeq(text, m[1], m[2]))>>
    ELSE <<[m |-> 0, d |-> 0]>>

\* try: return float(match.group(1)) / except ValueError: pass
FloatOrNone(text, m) ==
    IF m # <<>> /\ Parses(SubSeq(text, m[1], m[2]))
    THEN <<ParseFloat(SubSeq(text, m[1], m[2]))>>
    ELSE None

\* self.direction_patterns[direction.lower()], its alternatives as keywords
DirectionKeywords(direction) ==
    LET n == CHOOSE g \in 1..Len(direction_patterns) : direction_patterns[g].key = direction
    IN  [w \in 1..Len(direction_patterns[n].words) |-> <<direction_patterns[n].words[w], <<>>>>]

\* the price after a word of the detected direction, with [:\s@] between them
EntryAfterDirection(text, direction) ==
    IF direction # None
    THEN FloatOrNone(text, SearchPriced(DirectionKeywords(direction),
                                        KeywordSeparators \cup {"@"}, text, 1))
    ELSE None

\* the price after the direction word tried before the entry keywords
ExtractEntryPrice_DirectionFirst(text) ==
    LET after == EntryAfterDirection(text, ExtractDirection(text))
    IN  IF after # None THEN after
        ELSE FloatOrNone(text, SearchPriced(trading_keywords.entry,
                                            KeywordSeparators, text, 1))

\* _extract_entry_price: the price after an entry keyword, else the price
\* after a word of the detected direction, else None
ExtractEntryPrice(text) ==
    LET keyed == FloatOrNone(text, SearchPriced(trading_keywords.entry,
                                                KeywordSeparators, text, 1))
    IN  IF keyed # None THEN keyed ELSE EntryAfterDirection(text, ExtractDirection(text))

\* _extract_stop_loss
ExtractStopLoss(text) ==
    FloatOrNone(text, SearchPriced(trading_keywords.stop_loss, KeywordSeparators, text, 1))

\* the floats of the tokens that parse, in order
RECURSIVE Floats(_)
Floats(tokens) ==
    IF tokens = <<>> THEN <<>>
    ELSE (IF Parses(Head(tokens)) THEN <<ParseFloat(Head(tokens))>> ELSE <<>>)
         \o Floats(Tail(tokens))

\* _extract_take_profit
ExtractTakeProfit(text) ==
    Floats(FindAllPriced(trading_keywords.take_profit, KeywordSeparators, text, 1))

\* timeframe_patterns, in list order: (\d+)M(?:IN)?, (\d+)H(?:R)?, (\d+)D(?:AY)?,
\* (\d+)W(?:EEK)?, M(\d+), H(\d+), D(\d+)
timeframe_patterns ==
    << [unit |-> "M", number_first |-> TRUE,  suffix |-> <<"I", "N">>],
       [unit |-> "H", number_first |-> TRUE,  suffix |-> <<"R">>],
       [unit |-> "D", number_first |-> TRUE,  suffix |-> <<"A", "Y">>],
       [unit |-> "W", number_first |-> TRUE,  suffix |-> <<"E", "E", "K">>],
       [unit |-> "M", number_first |-> FALSE, suffix |-> <<>>],
       [unit |-> "H", number_first |-> FALSE, suffix |-> <<>>],
       [unit |-> "D", number_first |-> FALSE, suffix |-> <<>>] >>

\* the last position of timeframe pattern p matched at i, 0 without a match
TimeframeEnd(p, text, i) ==
    IF p.number_first
    THEN IF text[i] \notin Digits THEN 0
         ELSE LET e == DigitRunEnd(text, i)
              IN  IF e < Len(text) /\ text[e + 1] = p.unit
                  THEN IF Occurs(p.suffix, text, e + 2) THEN e + 1 + Len(p.suffix) ELSE e + 1
                  ELSE 0
    ELSE IF text[i] = p.unit /\ i < Len(text) /\ text[i + 1] \in Digits
         THEN DigitRunEnd(text, i + 1)
         ELSE 0

\* _extract_timeframe: match.group(0) of the leftmost match of the first
\* pattern that matches anywhere
ExtractTimeframe(text) ==
    LET Matches(n) == {i \in 1..Len(text) : TimeframeEnd(timeframe_patterns[n], text, i) # 0}
        found == {n \in 1..Len(timeframe_patterns) : Matches(n) # {}}
    IN  IF found = {} THEN None
        ELSE LET p == timeframe_patterns[Least(found)]
                 i == Least(Matches(Least(found)))
             IN  SubSeq(text, i, TimeframeEnd(p, text, i))

\* the alternatives of rr_pattern: (?:RR|R:R|RATIO)
ratio_keywords == << <<<<"R", "R">>, <<>>>>, <<<<"R", ":", "R">>, <<>>>>, <<<<"R", "A", "T", "I", "O">>, <<>>>> >>

\* a second number starts behind the separators that follow position e
SecondNumberStart(text, e) ==
    LET s == SkipRun(text, e + 1, KeywordSeparators)
    IN  IF s <= Len(text) /\ text[s] \in Digits THEN s ELSE 0

\* (?:RR|R:R|RATIO)[:\s]*(\d+\.?\d*)[:\s]*(\d+\.?\d*) matched at i: the spans
\* of both groups, <<>> without a match.  The first number is taken as long as
\* the backtracking of \d+\.?\d* allows with a second number still behind it.
RatioAt(text, i) ==
    LET ok == {a \in 1..Len(ratio_keywords) :
                  PriceStart(ratio_keywords[a], KeywordSeparators, text, i) # 0}
    IN  IF ok = {} THEN <<>>
        ELSE LET k == PriceStart(ratio_keywords[Least(ok)], KeywordSeparators, text, i)
                 ends == {e \in k..NumberEnd(text, k) : SecondNumberStart(text, e) # 0}
             IN  IF ends = {} THEN <<>>
                 ELSE LET e == CHOOSE x \in ends : \A y \in ends : y <= x
                          s == SecondNumberStart(text, e)
                      IN  <<k, e, s, NumberEnd(text, s)>>

Max(a, b) == IF a > b THEN a ELSE b

\* abs(x - y) of two floats, as a number of 10^-d units, d the larger scale
AbsDiff(x, y, d) ==
    LET a == x.m * 10 ^ (d - x.d)
        b == y.m * 10 ^ (d - y.d)
    IN  IF a > b THEN a - b ELSE b - a

\* str() of a non-negative int
RECURSIVE IntStr(_)
IntStr(n) ==
    IF n < 10 THEN <<DigitChars[n + 1]>>
    ELSE IntStr(n \div 10) \o <<DigitChars[(n % 10) + 1]>>

\* n written with exactly `width` digits
RECURSIVE Padded(_, _)
Padded(n, width) ==
    IF width = 0 THEN <<>>
    ELSE Padded(n \div 10, width - 1) \o <<DigitChars[(n % 10) + 1]>>

\* str() of a float: the shortest decimal, with at least one fraction digit
FloatStr(x) ==
    IntStr(x.m \div 10 ^ x.d) \o <<".">>
    \o (IF x.d = 0 THEN <<"0">> ELSE Padded(x.m % 10 ^ x.d, x.d))

\* f"1:{ratio:.1f}" for ratio = reward / risk, rounded to the nearest tenth
RatioStr(reward, risk) ==
    LET tenths == (20 * reward + risk) \div (2 * risk)
    IN  <<"1", ":">> \o IntStr(tenths \div 10) \o <<".">> \o IntStr(tenths % 10)

\* the explicit ratio f"{match.group(1)}:{match.group(2)}" of the leftmost
\* match if there is one; else, with entry, stop_loss and take_profits all
\* truthy and risk > 0, the ratio of reward = abs(take_profits[0] - entry) to
\* risk = abs(entry - stop_loss); else None
RiskRewardOf(text, at, entry, stop_loss, take_profits) ==
    IF at # {}
    THEN LET m == RatioAt(text, Least(at))
         IN  SubSeq(text, m[1], m[2]) \o <<":">> \o SubSeq(text, m[3], m[4])
    ELSE IF TruthyFloat(entry) /\ TruthyFloat(stop_loss) /\ take_profits # <<>>
    THEN LET d == Max(entry[1].d, Max(stop_loss[1].d, take_profits[1].d))
             risk == AbsDiff(entry[1], stop_loss[1], d)
             reward == AbsDiff(take_profits[1], entry[1], d)
         IN  IF risk > 0 THEN RatioStr(reward, risk) ELSE None
    ELSE None

\* _calculate_risk_reward
CalculateRiskReward(text) ==
    RiskRewardOf(text, {i \in 1..Len(text) : RatioAt(text, i) # <<>>},
                 ExtractEntryPrice(text), ExtractStopLoss(text), ExtractTakeProfit(text))

\* re.findall(self.price_pattern, text): every number, left to right
RECURSIVE FindAllNumbers(_, _)
FindAllNumbers(text, from) ==
    LET at == {i \in from..Len(text) : text[i] \in Digits}
    IN  IF at = {} THEN <<>>
        ELSE <<SubSeq(text, Least(at), NumberEnd(text, Least(at)))>>
             \o FindAllNumbers(text, NumberEnd(text, Least(at)) + 1)

\* 0.01 <= price <= 100000
ReasonablePrice(x) == x.m * 100 >= 10 ^ x.d /\ x.m <= 100000 * 10 ^ x.d

\* _extract_all_prices
ExtractAllPrices(text) ==
    SelectSeq(Floats(FindAllNumbers(text, 1)), ReasonablePrice)

\* `score += 0.2`, `confidence >= 0.4` and `int(confidence * 100)`: a
\* confidence is a number of hundredths
ConfidenceStep == 20

MinConfidence == 40

\* _calculate_confidence: one step for each extractor whose result is truthy
CalculateConfidence(text) ==
    (IF ExtractInstrument(text) # None THEN ConfidenceStep ELSE 0)
    + (IF ExtractDirection(text) # None THEN ConfidenceStep ELSE 0)
    + (IF TruthyFloat(ExtractEntryPrice(text)) THEN ConfidenceStep ELSE 0)
    + (IF TruthyFloat(ExtractStopLoss(text)) THEN ConfidenceStep ELSE 0)
    + (IF ExtractTakeProfit(text) # <<>> THEN ConfidenceStep ELSE 0)

\* the threshold alone decides
ValidateSignal_ThresholdOnly(signal) == signal.confidence >= MinConfidence

\* _validate_signal: instrument and direction, then one of the price fields,
\* then the confidence threshold
ValidateSignal(signal) ==
    IF signal.instrument = None \/ signal.direction = None THEN FALSE
    ELSE /\ \/ TruthyFloat(signal.entry_price)
            \/ TruthyFloat(signal.stop_loss)
            \/ signal.take_profit # <<>>
         /\ signal.confidence >= MinConfidence

\* extract_trading_signal before signal['is_valid_signal'] is assigned
ExtractedFields(text_upper) ==
    [ instrument |-> ExtractInstrument(text_upper),
      direction |-> ExtractDirection(text_upper),
      entry_price |-> ExtractEntryPrice(text_upper),
      stop_loss |-> ExtractStopLoss(text_upper),
      take_profit |-> ExtractTakeProfit(text_upper),
      risk_reward |-> CalculateRiskReward(text_upper),
      timeframe |-> ExtractTimeframe(text_upper),
      confidence |-> CalculateConfidence(text_upper),
      raw_prices |-> ExtractAllPrices(text_upper),
      is_valid_signal |-> FALSE ]

\* signal['is_valid_signal'] = self._validate_signal(signal)
WithValidity(signal) == [signal EXCEPT !.is_valid_signal = ValidateSignal(signal)]

\* extract_trading_signal
ExtractTradingSignal(text) == WithValidity(ExtractedFields(TextUpper(text)))

\* ", ".join(map(str, floats))
RECURSIVE JoinFloats(_)
JoinFloats(floats) ==
    IF Len(floats) = 1 THEN FloatStr(floats[1])
    ELSE FloatStr(floats[1]) \o <<",", " ">> \o JoinFloats(Tail(floats))

\* format_signal_summary; an emoji is one character, written as its name
FormatSignalSummary(signal) ==
    IF ~signal.is_valid_signal
    THEN <<"[cross mark]">> \o <<" ", "I", "n", "v", "a", "l", "i", "d", " ", "o", "r", " ", "i", "n", "c", "o", "m", "p", "l", "e", "t", "e", " ", "t", "r", "a", "d", "i", "n", "g", " ", "s", "i", "g", "n", "a", "l">>
    ELSE <<"[chart increasing]", " ", "*", "*">> \o signal.instrument \o <<"*", "*", " ">>
         \o signal.direction
         \o (IF TruthyFloat(signal.entry_price)
             THEN <<"\n", "[money bag]">> \o <<" ", "E", "n", "t", "r", "y", ":", " ">> \o FloatStr(signal.entry_price[1])
             ELSE <<>>)
         \o (IF TruthyFloat(signal.stop_loss)
             THEN <<"\n", "[stop sign]">> \o <<" ", "S", "t", "o", "p", " ", "L", "o", "s", "s", ":", " ">> \o FloatStr(signal.stop_loss[1])
             ELSE <<>>)
         \o (IF signal.take_profit # <<>>
             THEN IF Len(signal.take_profit) = 1
                  THEN <<"\n", "[direct hit]">> \o <<" ", "T", "a", "k", "e", " ", "P", "r", "o", "f", "i", "t", ":", " ">>
                       \o FloatStr(signal.take_profit[1])
                  ELSE <<"\n", "[direct hit]">> \o <<" ", "T", "a", "k", "e", " ", "P", "r", "o", "f", "i", "t", "s", ":", " ">>
                       \o JoinFloats(signal.take_profit)
             ELSE <<>>)
         \o (IF signal.risk_reward # None
             THEN <<"\n", "[bar chart]">> \o <<" ", "R", "i", "s", "k", "/", "R", "e", "w", "a", "r", "d", ":", " ">> \o signal.risk_reward
             ELSE <<>>)
         \o (IF signal.timeframe # None
             THEN <<"\n", "[alarm clock]">> \o <<" ", "T", "i", "m", "e", "f", "r", "a", "m", "e", ":", " ">> \o signal.timeframe
             ELSE <<>>)
         \o <<"\n", "[direct hit]">> \o <<" ", "C", "o", "n", "f", "i", "d", "e", "n", "c", "e", ":", " ">> \o IntStr(signal.confidence) \o <<"%">>

\* trading_words of is_forex_related
trading_words ==
    << <<"B", "U", "Y">>,
       <<"S", "E", "L", "L">>,
       <<"L", "O", "N", "G">>,
       <<"S", "H", "O", "R", "T">>,
       <<"E", "N", "T", "R", "Y">>,
       <<"E", "X", "I", "T">>,
       <<"S", "T", "O", "P">>,
       <<"T", "A", "R", "G", "E", "T">>,
       <<"P", "R", "O", "F", "I", "T">>,
       <<"L", "O", "S", "S">>,
       <<"P", "I", "P", "S">>,
       <<"T", "R", "A", "D", "E">>,
       <<"S", "I", "G", "N", "A", "L">>,
       <<"A", "N", "A", "L", "Y", "S", "I", "S">>,
       <<"C", "H", "A", "R", "T">>,
       <<"S", "U", "P", "P", "O", "R", "T">>,
       <<"R", "E", "S", "I", "S", "T", "A", "N", "C", "E">>,
       <<"T", "R", "E", "N", "D">>,
       <<"B", "R", "E", "A", "K", "O", "U", "T">>,
       <<"R", "E", "V", "E", "R", "S", "A", "L">> >>

\* is_forex_related: an instrument found in the upper-cased text, or one of
\* the trading words in it
IsForexRelated(text) ==
    \/ ExtractInstrument(TextUpper(text)) # None
    \/ \E w \in 1..Len(trading_words) : Contains(trading_words[w], TextUpper(text))

-----------------------------------------------------------------------------
(* The parser applied to texts and records *)

\* the parts the texts are composed of: an instrument in one of its forms (or
\* none), direction words (or none), prices with their keywords (or none)
InstrumentParts ==
    { <<>>,
      <<"E", "U", "R", "U", "S", "D">>,
      <<"G", "B", "P", "/", "U", "S", "D">>,
      <<"u", "s", "d", " ", "j", "p", "y">>,
      <<"X", "A", "U", "-", "U", "S", "D">>,
      <<"G", "B", "P", "/", "C", "A", "D">>,
      <<"U", "S", "D", "J", "P", "Y", " ", "E", "U", "R", "/", "U", "S", "D">>,
      <<"G", "o", "l", "d">> }

DirectionParts ==
    { <<>>,
      <<"B", "U", "Y">>,
      <<"S", "E", "L", "L">>,
      <<"s", "e", "l", "l", " ", "t", "h", "e", "n", " ", "b", "u", "y">>,
      <<"l", "o", "n", "g">>,
      <<"S", "H", "O", "R", "T">>,
      <<"D", "O", "W", "N", " ", "U", "P">>,
      <<"s", "u", "p", "p", "o", "r", "t">> }

PriceParts ==
    { <<>>,
      <<"a", "t", " ", "1", ".", "0", "8", "5", "0", ",", " ", "S", "L", ":", " ", "1", ".", "0", "8", "0", "0", ",", " ", "T", "P", ":", " ", "1", ".", "0", "9", "5", "0">>,
      <<"E", "N", "T", "R", "Y", " ", "0">>,
      <<"S", "L", " ", "0">>,
      <<"T", "P", " ", "0">>,
      <<"2", "6", "5", "0", ".", "5", "0", ",", " ", "S", "t", "o", "p", " ", "L", "o", "s", "s", " ", "2", "6", "6", "5", ".", "0", "0", ",", " ", "T", "a", "k", "e", " ", "P", "r", "o", "f", "i", "t", " ", "2", "6", "2", "0", ".", "0", "0">>,
      <<"1", ".", "5">>,
      <<"T", "P", "1", " ", "1", ".", "2", "8", "5", "0", ",", " ", "T", "P", "2", " ", "1", ".", "2", "9", "5", "0", " ", "H", "4">> }

OtherTexts ==
    { <<"j", "u", "s", "t", " ", "c", "h", "a", "t", "t", "i", "n", "g", " ", "a", "b", "o", "u", "t", " ", "t", "h", "e", " ", "w", "e", "a", "t", "h", "e", "r">>,
      <<"h", "e", "l", "l", "o">>,
      <<"n", "i", "c", "e", " ", "d", "a", "y">>,
      <<"R", "R", " ", "2", "5">>,
      <<"R", "A", "T", "I", "O", " ", "1", ":", "3", " ", "1", "5", "m", "i", "n">>,
      <<"B", "i", "t", "c", "o", "i", "n", " ", "B", "T", "C", "U", "S", "D", " ", "S", "H", "O", "R", "T", " ", "e", "n", "t", "r", "y", " ", "4", "5", "0", "0", "0", ",", " ", "s", "t", "o", "p", " ", "4", "6", "0", "0", "0", ",", " ", "t", "a", "r", "g", "e", "t", " ", "4", "3", "0", "0", "0">>,
      <<"B", "U", "Y", " ", "1", ".", "0", "9", "0", "0", " ", "E", "N", "T", "R", "Y", " ", "1", ".", "0", "8", "5", "0">> }

\* " ".join of the non-empty parts
JoinParts(a, b) ==
    IF a = <<>> THEN b ELSE IF b = <<>> THEN a ELSE a \o <<" ">> \o b

ParserTexts ==
    {JoinParts(JoinParts(a, b), c) :
        a \in InstrumentParts, b \in DirectionParts, c \in PriceParts}
    \cup OtherTexts

\* the dict extract_trading_signal starts from
NoSignal ==
    [ instrument |-> None, direction |-> None, entry_price |-> None, stop_loss |-> None,
      take_profit |-> <<>>, risk_reward |-> None, timeframe |-> None, confidence |-> 0,
      raw_prices |-> <<>>, is_valid_signal |-> FALSE ]

\* the confidence values handed to _validate_signal: the five sums, and values
\* around the threshold
Confidences == {0, 20, 39, 40, 41, 60, 80, 100}

\* the records handed to _validate_signal: every indicator field absent, or
\* present with a positive price
SignalRecords ==
    { [NoSignal EXCEPT !.instrument = i, !.direction = d, !.entry_price = e,
                       !.stop_loss = s, !.take_profit = t, !.confidence = c] :
        i \in {None, forex_pairs[1]}, d \in {None, BUY},
        e \in {None, <<[m |-> 1085, d |-> 3]>>}, s \in {None, <<[m |-> 108, d |-> 2]>>},
        t \in {<<>>, <<[m |-> 1095, d |-> 3]>>}, c \in Confidences }

NoRescan == [instrument |-> None, direction |-> None]

NoValidation == [record |-> NoSignal, result |-> FALSE]

\* parser.extract_trading_signal(text)
ExtractCall ==
    /\ parser_pc = "text"
    /\ result' = ExtractTradingSignal(input)
    /\ parser_pc' = "extracted"
    /\ UNCHANGED <<notifVars, appVars, input, summary, rescan, forex_related, validation>>

\* parser.format_signal_summary(signal)
FormatCall ==
    /\ parser_pc = "extracted"
    /\ summary' = FormatSignalSummary(result)
    /\ parser_pc' = "formatted"
    /\ UNCHANGED <<notifVars, appVars, input, result, rescan, forex_related, validation>>

\* _extract_instrument and _extract_direction applied to the summary
RescanCall ==
    /\ parser_pc = "formatted"
    /\ rescan' = [instrument |-> ExtractInstrument(summary),
                  direction |-> ExtractDirection(summary)]
    /\ parser_pc' = "rescanned"
    /\ UNCHANGED <<notifVars, appVars, input, result, summary, forex_related, validation>>

\* parser.is_forex_related(text)
ForexRelatedCall ==
    /\ parser_pc = "rescanned"
    /\ forex_related' = IsForexRelated(input)
    /\ parser_pc' = "classified"
    /\ UNCHANGED <<notifVars, appVars, input, result, summary, rescan, validation>>

\* parser._validate_signal(signal) on a record: the record is only read
ValidateCall ==
    /\ parser_pc = "record"
    /\ validation' = [record |-> result, result |-> ValidateSignal(result)]
    /\ parser_pc' = "validated"
    /\ UNCHANGED <<notifVars, appVars, input, result, summary, rescan, forex_related>>

-----------------------------------------------------------------------------
(* Specifications *)

\* no parser call has been made
ParserIdle ==
    /\ input = <<>>
    /\ result = NoSignal
    /\ summary = <<>>
    /\ rescan = NoRescan
    /\ forex_related = FALSE
    /\ validation = NoValidation
    /\ parser_pc = "idle"

Init ==
    /\ ParserIdle
    /\ notifier \in Notifiers
    /\ duration \in Durations
    /\ test_mode \in BOOLEAN
    /\ configured \in BOOLEAN
    /\ call = [c \in Calls |-> NoCall]
    /\ job = [c \in Calls |-> NoJob]
    /\ spawned = [c \in Calls |-> 0]
    /\ followups = [c \in Calls |-> <<>>]
    /\ is_running = FALSE
    /\ message_queue = <<>>
    /\ consumer = NoConsumer
    /\ arrived = 0
    /\ handled = <<>>
    /\ raised = {}
    /\ processed_messages = 0
    /\ trading_signals_processed = 0
    /\ main = "constructed"
    /\ drain = NoDrain
    /\ at_stop = NoStop
    /\ cleanup = NoCleanup
    /\ sends = [id \in 1..MaxMsgs |-> <<>>]

JobStep(c) == JobRun(c) \/ JobWake(c) \/ JobResponse(c)

Next ==
    \E c \in Calls :
        \/ SendNotification(c)
        \/ SendResponse(c)
        \/ JobRun(c)
        \/ JobWake(c)
        \/ JobResponse(c)

Spec == Init /\ [][Next]_vars

JobNext ==
    \E c \in Calls :
        \/ SendNotification(c)
        \/ SendResponse(c)
        \/ InvokeJob(c)
        \/ JobRun(c)
        \/ JobWake(c)
        \/ JobResponse(c)

\* durations the coroutine is invoked with: counts of 0, 1, 2, 3 and 5
JobDurations == {0, 5, 6, 17}

\* a configured notifier out of test mode
JobInit ==
    /\ Init
    /\ configured
    /\ ~test_mode
    /\ duration \in JobDurations

\* the event loop runs every ready task and every transport call returns
JobSpec == JobInit /\ [][JobNext]_vars /\ \A c \in Calls : WF_vars(JobStep(c))

\* the application with one notifier; the duration plays no part in the queue
AppInit ==
    /\ Init
    /\ duration = 30

AppNext ==
    \/ StartMonitoring
    \/ HandleNewMessage
    \/ ConsumerLoop
    \/ ConsumerGet
    \/ ConsumerTimeout
    \/ ProcessAI
    \/ ProcessNotify
    \/ ProcessAlert
    \/ TaskDone
    \/ SignalHandler
    \/ RaiseKeyboardInterrupt
    \/ ExceptKeyboardInterrupt
    \/ MonitoringError
    \/ MainKeyboardInterrupt
    \/ Cleanup

\* the event loop runs the consumer task and every awaited call comes back
AppSpec == AppInit /\ [][AppNext]_vars /\ WF_vars(ConsumerStep)

\* a parser that is handed one text, or one record to validate
ParserInit ==
    /\ notifier = "FCMNotifier"
    /\ duration = 30
    /\ test_mode = FALSE
    /\ configured = TRUE
    /\ call = [c \in Calls |-> NoCall]
    /\ job = [c \in Calls |-> NoJob]
    /\ spawned = [c \in Calls |-> 0]
    /\ followups = [c \in Calls |-> <<>>]
    /\ is_running = FALSE
    /\ message_queue = <<>>
    /\ consumer = NoConsumer
    /\ arrived = 0
    /\ handled = <<>>
    /\ raised = {}
    /\ processed_messages = 0
    /\ trading_signals_processed = 0
    /\ main = "constructed"
    /\ drain = NoDrain
    /\ at_stop = NoStop
    /\ cleanup = NoCleanup
    /\ sends = [id \in 1..MaxMsgs |-> <<>>]
    /\ summary = <<>>
    /\ rescan = NoRescan
    /\ forex_related = FALSE
    /\ validation = NoValidation
    /\ \/ input \in ParserTexts /\ result = NoSignal /\ parser_pc = "text"
       \/ input = <<>> /\ result \in SignalRecords /\ parser_pc = "record"

ParserNext ==
    \/ ExtractCall
    \/ FormatCall
    \/ RescanCall
    \/ ForexRelatedCall
    \/ ValidateCall

ParserSpec == ParserInit /\ [][ParserNext]_vars

-----------------------------------------------------------------------------
(* Properties of the escalation *)

Escalating == {"FCMNotifier", "FCMv1Notifier"}

ReturnedTrue(c) == call[c].pc = "returned" /\ call[c].result

ReturnedFalse(c) == call[c].pc = "returned" /\ ~call[c].result

Terminated(c) == job[c].pc \in {"done", "failed"}

\* min(duration // interval, cap) with the numbers of the two cadence profiles
ExpectedCount ==
    IF notifier = "FCMNotifier" THEN Min(duration \div 3, 8) ELSE Min(duration \div 5, 6)

\* C1, as stated: every send_notification call that returned True for a text
\* containing FOREX or TRADE has spawned exactly one escalation job, whatever
\* the notifier, the duration and the mode.
C1_EveryDeliverySpawns ==
    \A c \in Calls :
        ReturnedTrue(c) /\ IsForexAlert(call[c].formatted_message) => spawned[c] = 1

\* C1, amended: a call that returned True for a text containing FOREX or TRADE
\* has spawned exactly one job when the notifier is FCMNotifier or
\* FCMv1Notifier, test mode is off and duration > 5, and none otherwise.
C1_SpawnsOneWhenLive ==
    \A c \in Calls :
        ReturnedTrue(c) /\ IsForexAlert(call[c].formatted_message) =>
            spawned[c] = IF notifier \in Escalating /\ ~test_mode /\ duration > 5
                         THEN 1 ELSE 0

C1_Witness ==
    \E c \in Calls :
        /\ ReturnedTrue(c)
        /\ IsForexAlert(call[c].formatted_message)
        /\ spawned[c] = 1
        /\ job[c].pc # "none"

C3_OnlyForexAlertsEscalate ==
    \A c \in Calls :
        ReturnedTrue(c) /\ ~IsForexAlert(call[c].formatted_message) =>
            spawned[c] = 0 /\ followups[c] = <<>>

\* C3, amended: with FCMNotifier a delivered message whose text contains
\* neither FOREX nor TRADE never gets a job or a follow-up; FCMv1Notifier does
\* not classify the text and spawns one job for it too when it is live and
\* duration > 5.
C3_OnlyFCMClassifies ==
    \A c \in Calls :
        ReturnedTrue(c) /\ ~IsForexAlert(call[c].formatted_message) =>
            IF notifier = "FCMv1Notifier" /\ ~test_mode /\ duration > 5
            THEN spawned[c] = 1
            ELSE spawned[c] = 0 /\ job[c].pc = "none" /\ followups[c] = <<>>

C3_Witness ==
    \E c \in Calls :
        /\ notifier = "FCMNotifier"
        /\ ~test_mode
        /\ duration > 5
        /\ ReturnedTrue(c)
        /\ call[c].path = "ok"
        /\ ~IsForexAlert(call[c].formatted_message)
        /\ spawned[c] = 0

\* C4: a send_notification call that returned False has spawned no job and
\* no follow-up exists for its message.
C4_NoEscalationAfterFailure ==
    \A c \in Calls :
        ReturnedFalse(c) => spawned[c] = 0 /\ job[c].pc = "none" /\ followups[c] = <<>>

\* a failed transport call for a text and a duration that would escalate
C4_Witness ==
    \E c \in Calls :
        /\ ReturnedFalse(c)
        /\ call[c].path \in {"http_error", "zero_success", "timeout", "exception", "no_response"}
        /\ notifier \in Escalating
        /\ duration > 5
        /\ IsForexAlert(call[c].formatted_message)

\* C5, as stated: the id of follow-up n is <base_id>_followup_<n> with both
\* notifiers.
C5_FollowupId ==
    \A c \in Calls : \A n \in 1..Len(followups[c]) :
        followups[c][n].data.id =
            GetId(call[c].message_data) \o <<"_followup_", ToString(n)>>

\* C5, amended: the id of follow-up n is <base_id>_followup_<n> with
\* FCMv1Notifier and <base_id>_voice_followup_<n> with FCMNotifier, base_id
\* being the id of the delivered message, or 'unknown' when it has none.
C5_FollowupIdPerNotifier ==
    \A c \in Calls : \A n \in 1..Len(followups[c]) :
        followups[c][n].data.id =
            (IF call[c].message_data.id = NoId THEN <<"unknown">>
             ELSE call[c].message_data.id)
            \o <<(IF notifier = "FCMNotifier" THEN "_voice_followup_" ELSE "_followup_"),
                 ToString(n)>>

C5_Witness ==
    \E c \in Calls :
        /\ notifier = "FCMNotifier"
        /\ Len(followups[c]) >= 2
        /\ followups[c][2].data.id = <<"msg", ToString(c), "_voice_followup_", "2">>

\* C6, as stated: a job with count k always makes k delivery attempts, whatever
\* the attempts answer or raise, with both notifiers.
C6_AllAttemptsMade ==
    \A c \in Calls :
        Terminated(c) => Len(followups[c]) = job[c].follow_ups

\* C7: whenever a job exists for a call, that call has already returned True
\* to its caller, and it stays so while the job sleeps, delivers, ends or fails.
C7_CallerNotBlocked ==
    \A c \in Calls :
        spawned[c] > 0 \/ followups[c] # <<>> \/ job[c].pc # "none" =>
            ReturnedTrue(c)

\* a job ended by an exception, its caller holding True
C7_Witness ==
    \E c \in Calls :
        /\ job[c].pc = "failed"
        /\ ReturnedTrue(c)
        /\ followups[c] # <<>>

\* C8, as stated: the text of follow-up n is the urgency label at index
\* n mod 4 of the list, then the base text, with both notifiers.
C8_LabelByFollowupNumber ==
    \A c \in Calls : \A n \in 1..Len(followups[c]) :
        followups[c][n].text =
            urgency_levels[(n % 4) + 1] \o <<"\n\n">> \o call[c].formatted_message

\* C8, amended: with FCMNotifier the text of follow-up n is the urgency label
\* at index (n - 1) mod 4 of the list, a blank line and the base text, so that
\* follow-ups 5 and 6 carry the labels of follow-ups 1 and 2; with
\* FCMv1Notifier every follow-up is the base text behind the one fixed prefix.
C8_LabelByLoopIndex ==
    \A c \in Calls : \A n \in 1..Len(followups[c]) :
        /\ followups[c][n].text =
              IF notifier = "FCMNotifier"
              THEN urgency_levels[((n - 1) % 4) + 1] \o <<"\n\n">>
                   \o call[c].formatted_message
              ELSE <<"URGENT:">> \o call[c].formatted_message
        /\ n > 4 /\ notifier = "FCMNotifier" =>
              SubSeq(followups[c][n].text, 1, 3) = SubSeq(followups[c][n - 4].text, 1, 3)

C8_Witness ==
    \E c \in Calls :
        /\ notifier = "FCMNotifier"
        /\ Len(followups[c]) >= 6
        /\ SubSeq(followups[c][6].text, 1, 3) = <<"CRITICAL", "TRADE", "SIGNAL">>
        /\ SubSeq(followups[c][2].text, 1, 3) = <<"CRITICAL", "TRADE", "SIGNAL">>

\* what holds of a job's sleeps and attempts at each point of its loop
JobShape(c) ==
    /\ job[c].pc = "sleeping" => job[c].sleeps = Len(followups[c]) + 1
    /\ job[c].pc \in {"posting", "done", "failed"} => job[c].sleeps = Len(followups[c])
    /\ job[c].pc = "done" =>
          Len(followups[c]) = IF ExpectedCount > 0 THEN ExpectedCount ELSE 0
    /\ job[c].pc \notin {"none", "created"} /\ ExpectedCount <= 0 =>
          job[c].pc = "done" /\ job[c].sleeps = 0 /\ followups[c] = <<>>

\* C9: every job that exists eventually ends; one that ends with every
\* transport call having returned has made min(duration // interval, cap)
\* attempts, each after one sleep; one whose count is 0 or negative ends
\* without a sleep or an attempt.
C9_JobTerminates ==
    /\ <>[](\A c \in Calls : job[c].pc \in {"none", "done", "failed"})
    /\ [](\A c \in Calls : JobShape(c))

C9_Witness ==
    \E c \in Calls :
        /\ job[c].pc = "done"
        /\ job[c].follow_ups = 5
        /\ Len(followups[c]) = 5
        /\ job[c].sleeps = 5

-----------------------------------------------------------------------------
(* Properties of the queue consumer *)

\* C10: the consumer task is over only when is_running is false, whatever was
\* raised while a message was processed, and as long as is_running holds every
\* queued message is taken: the run ends up shut down or with an empty queue
\* and the consumer back at its poll.
C10_QueueNeverHalts ==
    /\ [](consumer.pc \notin {"not_started", "loop", "waiting", "ai", "notify",
                               "alert", "task_done"} => ~is_running)
    /\ <>[](is_running => message_queue = <<>> /\ consumer.pc \in {"loop", "waiting"})

\* the first message raised, and the second one was taken all the same
C10_Witness ==
    /\ is_running
    /\ Len(handled) >= 2
    /\ handled[1] \in raised
    /\ consumer.pc = "notify"
    /\ consumer.msg.id = handled[2]

-----------------------------------------------------------------------------
(* Properties of the shutdown *)

\* C11: on every shutdown path of the start command (signal handler,
\* KeyboardInterrupt, monitoring error) cleanup has attempted to process the
\* messages still queued, under the timeout min(2 x queue size, 30), before
\* the process exits: a message is left in the queue at exit only after a
\* drain was started with that timeout.
C11_QueueDrainedAtShutdown ==
    main = "exited" /\ message_queue # <<>> =>
        /\ drain # NoDrain
        /\ drain.timeout \in {DrainTimeout(n) : n \in 1..MaxMsgs}

-----------------------------------------------------------------------------
(* Properties of the parser *)

\* extract_trading_signal has returned for the text in `input`
Extracted == parser_pc \in {"extracted", "formatted", "rescanned", "classified"}

\* the summary of the record has been scanned again
Rescanned == parser_pc \in {"rescanned", "classified"}

IndicatorFields == {"instrument", "direction", "entry_price", "stop_loss", "take_profit"}

\* the number of indicator fields present in the record: not None, not []
PresentCount(signal) == Cardinality({f \in IndicatorFields : signal[f] # <<>>})

\* C12: for every text the confidence of the returned record lies in [0.0, 1.0]
\* and is exactly 0.2 times the number of the five indicator fields present in
\* that record, a price of 0 included.
C12_ConfidenceCountsPresentFields ==
    Extracted =>
        /\ result.confidence \in 0..100
        /\ result.confidence = ConfidenceStep * PresentCount(result)

WeatherText == <<"j", "u", "s", "t", " ", "c", "h", "a", "t", "t", "i", "n", "g", " ", "a", "b", "o", "u", "t", " ", "t", "h", "e", " ", "w", "e", "a", "t", "h", "e", "r">>

\* C14: for "just chatting about the weather" the record has no instrument, no
\* direction, confidence 0.0 and is not valid: the generic fallback finds no
\* instrument in a text without catalogued instrument and trading vocabulary.
C14_WeatherTextHasNoSignal ==
    Extracted /\ input = WeatherText =>
        /\ result.instrument = None
        /\ result.direction = None
        /\ result.confidence = 0
        /\ ~result.is_valid_signal

Example1Text == <<"E", "U", "R", "U", "S", "D", " ", "B", "U", "Y", " ", "a", "t", " ", "1", ".", "0", "8", "5", "0", ",", " ", "S", "L", ":", " ", "1", ".", "0", "8", "0", "0", ",", " ", "T", "P", ":", " ", "1", ".", "0", "9", "5", "0">>

\* C15: for "EURUSD BUY at 1.0850, SL: 1.0800, TP: 1.0950" the record has
\* instrument EURUSD, direction BUY, entry_price 1.0850, stop_loss 1.0800,
\* take_profit [1.0950], confidence 1.0 and is valid.
C15_Example1 ==
    Extracted /\ input = Example1Text =>
        /\ result.instrument = <<"E", "U", "R", "U", "S", "D">>
        /\ result.direction = <<"B", "U", "Y">>
        /\ result.entry_price = <<[m |-> 1085, d |-> 3]>>
        /\ result.stop_loss = <<[m |-> 108, d |-> 2]>>
        /\ result.take_profit = <<[m |-> 1095, d |-> 3]>>
        /\ result.confidence = 100
        /\ result.is_valid_signal

C15_Witness == parser_pc = "extracted" /\ input = Example1Text

\* C16: for every valid record produced by extract_trading_signal, whether its
\* instrument is catalogued or came from the generic fallback, the summary of
\* format_signal_summary scanned by _extract_instrument and _extract_direction
\* gives the instrument and the direction of the record.
C16_SummaryRoundTrip ==
    Rescanned /\ result.is_valid_signal =>
        /\ rescan.instrument = result.instrument
        /\ rescan.direction = result.direction

\* the upper-cased text contains a catalogued instrument in one of its forms
HasCataloguedInstrument(text) ==
    \E n \in 1..Len(forex_pairs) : PairFound(forex_pairs[n], TextUpper(text))

\* the upper-cased text contains one of the trading-vocabulary keywords
HasTradingWord(text) ==
    \E w \in 1..Len(trading_words) : Contains(trading_words[w], TextUpper(text))

\* C17: is_forex_related is true exactly when the text contains a catalogued
\* instrument (bare or with "/", "-" or a space) or a trading-vocabulary
\* keyword, and false for a text with neither.
C17_ForexRelatedIffListed ==
    parser_pc = "classified" =>
        forex_related = (HasCataloguedInstrument(input) \/ HasTradingWord(input))

SignalKeys ==
    {"instrument", "direction", "entry_price", "stop_loss", "take_profit", "risk_reward",
     "timeframe", "confidence", "raw_prices", "is_valid_signal"}

\* a float as the parser produces it: non-negative, without a trailing zero
IsFloat(x) ==
    /\ DOMAIN x = {"m", "d"}
    /\ x.m \in Nat
    /\ x.d \in Nat
    /\ x.d > 0 => x.m % 10 # 0

IsOptionalFloat(opt) == opt = None \/ (Len(opt) = 1 /\ IsFloat(opt[1]))

HasDigit(text) == \E i \in 1..Len(text) : text[i] \in Digits

\* C18: extract_trading_signal returns for every text a record with all ten
\* keys; a price is None or one number, take_profit and raw_prices are lists of
\* numbers, and what is not found is None or the empty list: without a digit
\* in the text there is no price, no ratio and no timeframe, and a text in
\* which nothing is found gives the record extraction started from.
C18_TotalWithAllKeys ==
    Extracted =>
        /\ DOMAIN result = SignalKeys
        /\ IsOptionalFloat(result.entry_price)
        /\ IsOptionalFloat(result.stop_loss)
        /\ \A k \in 1..Len(result.take_profit) : IsFloat(result.take_profit[k])
        /\ \A k \in 1..Len(result.raw_prices) : IsFloat(result.raw_prices[k])
        /\ result.confidence \in 0..100
        /\ result.is_valid_signal \in BOOLEAN
        /\ ~HasDigit(input) =>
               /\ result.entry_price = None
               /\ result.stop_loss = None
               /\ result.take_profit = <<>>
               /\ result.raw_prices = <<>>
               /\ result.risk_reward = None
               /\ result.timeframe = None

\* "hello": nothing is found, and the record is the one extraction started from
C18_Witness ==
    /\ parser_pc = "extracted"
    /\ input = <<"h", "e", "l", "l", "o">>
    /\ result = NoSignal

BuyGroup == {<<"B", "U", "Y">>, <<"L", "O", "N", "G">>, <<"B", "U", "L", "L", "I", "S", "H">>, <<"U", "P">>}

SellGroup == {<<"S", "E", "L", "L">>, <<"S", "H", "O", "R", "T">>, <<"B", "E", "A", "R", "I", "S", "H">>, <<"D", "O", "W", "N">>}

HasSynonym(group, text) == \E w \in group : Contains(w, TextUpper(text))

\* C19: the BUY group is tried before the SELL group: a text with a synonym of
\* both groups gives BUY wherever the synonyms stand, SELL is given only
\* without a BUY-group synonym, and None only without a synonym of either.
C19_BuyGroupFirst ==
    Extracted =>
        result.direction = IF HasSynonym(BuyGroup, input) THEN <<"B", "U", "Y">>
                           ELSE IF HasSynonym(SellGroup, input) THEN <<"S", "E", "L", "L">>
                           ELSE None

\* a text with a SELL-group synonym standing before its BUY-group synonym
C19_Witness ==
    /\ parser_pc = "extracted"
    /\ input = <<"s", "e", "l", "l", " ", "t", "h", "e", "n", " ", "b", "u", "y">>
    /\ result.direction = <<"B", "U", "Y">>

\* no entry of the catalogue before entry n is found in the upper-cased text
NoneEarlier(n, text) == \A m \in 1..(n - 1) : ~PairFound(forex_pairs[m], TextUpper(text))

\* C20: of the catalogue entries a text matches, in whatever form and place,
\* the one declared first is returned; the generic fallback gives the
\* instrument only when no catalogue entry matches in any form; the instrument
\* is always six upper-case letters.
C20_FirstCatalogueEntryWins ==
    Extracted =>
        /\ \A n \in 1..Len(forex_pairs) :
               PairFound(forex_pairs[n], TextUpper(input)) /\ NoneEarlier(n, input) =>
                   result.instrument = forex_pairs[n]
        /\ (\A n \in 1..Len(forex_pairs) : result.instrument # forex_pairs[n]) =>
               ~HasCataloguedInstrument(input)
        /\ result.instrument # None =>
               /\ Len(result.instrument) = 6
               /\ \A k \in 1..6 : result.instrument[k] \in UpperLetters

\* "USDJPY EUR/USD": the entry declared first wins, though it stands second in
\* the text and is written with a separator
C20_Witness ==
    /\ parser_pc = "extracted"
    /\ PairFound(forex_pairs[3], TextUpper(input))
    /\ PairFound(forex_pairs[1], TextUpper(input))
    /\ Len(input) = 14
    /\ input[1] = "U"
    /\ result.instrument = forex_pairs[1]

-----------------------------------------------------------------------------
(* Properties of the price resolution *)

\* the span of the first price that follows an entry keyword, <<>> without one
KeyedEntry(text) ==
    SearchPriced(trading_keywords.entry, KeywordSeparators, TextUpper(text), 1)

\* the span of the first price that follows a stop-loss keyword, <<>> without one
KeyedStopLoss(text) ==
    SearchPriced(trading_keywords.stop_loss, KeywordSeparators, TextUpper(text), 1)

\* float() of the token at the span
PriceAt(text, span) == <<ParseFloat(SubSeq(TextUpper(text), span[1], span[2]))>>

\* C21: with an entry keyword followed by a price in the text, entry_price is
\* that price, whether or not a price follows the direction word; without
\* one, entry_price is the price that follows a word of the direction found,
\* and None when there is no direction or no such price; stop_loss is None
\* whenever no stop-loss keyword is followed by a price.
C21_EntryPriceOrder ==
    Extracted =>
        /\ KeyedEntry(input) # <<>> =>
               result.entry_price = PriceAt(input, KeyedEntry(input))
        /\ KeyedEntry(input) = <<>> =>
               result.entry_price = EntryAfterDirection(TextUpper(input), result.direction)
        /\ KeyedEntry(input) = <<>> /\ result.direction = None =>
               result.entry_price = None
        /\ KeyedStopLoss(input) = <<>> => result.stop_loss = None

\* "BUY 1.0900 ENTRY 1.0850": a price follows the direction word and another
\* one the entry keyword; the entry price is the second
C21_Witness ==
    /\ parser_pc = "extracted"
    /\ KeyedEntry(input) # <<>>
    /\ EntryAfterDirection(TextUpper(input), result.direction) # None
    /\ result.entry_price # EntryAfterDirection(TextUpper(input), result.direction)
    /\ result.entry_price = PriceAt(input, KeyedEntry(input))
    /\ result.stop_loss = None

-----------------------------------------------------------------------------
(* Properties of concurrent escalation jobs *)

\* the id the job of call c derives its follow-up ids from
BaseId(c) == GetId(call[c].message_data)

\* the ids of the follow-ups the job of call c has emitted
EmittedIds(c) == {followups[c][n].data.id : n \in 1..Len(followups[c])}

\* the follow-ups of the job of call c are its own: the id of follow-up n is
\* made of the job's base id and n, no two of them have the same id, and none
\* has the base id
OwnFollowUps(c) ==
    /\ \A n \in 1..Len(followups[c]) :
           followups[c][n].data.id = BaseId(c) \o <<IdSuffix(notifier), ToString(n)>>
    /\ Cardinality(EmittedIds(c)) = Len(followups[c])
    /\ BaseId(c) \notin EmittedIds(c)

\* C22: under every interleaving of the jobs of two delivered messages, each
\* job emits exactly its own follow-up count, with ids derived from its own
\* base id, pairwise distinct and different from the base id, and two jobs
\* with distinct base ids never emit the same follow-up id.
C22_JobsDoNotInterfere ==
    /\ \A c \in Calls :
           /\ Terminated(c) => Len(followups[c]) = FollowUpCount(notifier, duration)
           /\ OwnFollowUps(c)
    /\ \A c, d \in Calls :
           BaseId(c) # BaseId(d) => EmittedIds(c) \cap EmittedIds(d) = {}

\* C23: building follow-ups leaves the base of the job alone: after any number
\* of follow-ups the text and the metadata record of the job, id included, are
\* those send_notification was called with; every field of a follow-up's
\* metadata but the id equals the base's; the id of follow-up n is derived from
\* the base id, not from the id of follow-up n - 1.
C23_BaseUnchanged ==
    \A c \in Calls :
        job[c].pc # "none" =>
            /\ job[c].formatted_message = call[c].formatted_message
            /\ job[c].message_data = call[c].message_data
            /\ \A n \in 1..Len(followups[c]) :
                   /\ [followups[c][n].data EXCEPT !.id = call[c].message_data.id]
                          = call[c].message_data
                   /\ followups[c][n].data.id
                          = BaseId(c) \o <<IdSuffix(notifier), ToString(n)>>
                   /\ n > 1 => followups[c][n].data.id
                                   # followups[c][n - 1].data.id
                                         \o <<IdSuffix(notifier), ToString(n)>>

\* a job that has built three follow-ups from a base with an id
C23_Witness ==
    \E c \in Calls :
        /\ Len(followups[c]) = 3
        /\ job[c].message_data.id # NoId
        /\ job[c].message_data = MessageData(c, TRUE)
        /\ followups[c][3].data.source = "telegram"

-----------------------------------------------------------------------------
(* Properties of the polling consumer *)

\* is_running has been cleared after the consumer was started
FlagCleared == at_stop # NoStop

\* the messages the consumer has taken since the flag was cleared
TakenSinceStop == Len(handled) - at_stop.handled

\* process_message_queue has returned, or the process has
ConsumerOver == consumer.pc = "exited" \/ ~Alive

\* C24 as stated: once is_running has become false, process_message_queue
\* takes no further message after the one in progress.
C24_NoFurtherMessage == FlagCleared => TakenSinceStop = 0

\* C24, amended: the flag is only read at the top of the loop, so a consumer
\* that was suspended in wait_for(queue.get(), 5.0) when is_running became
\* false still takes one message if one is there before the timeout, and no
\* consumer takes more than that one; in every case process_message_queue
\* returns (or the process exits first), an empty queue notwithstanding.
C24_StopsPolling ==
    /\ [](FlagCleared =>
              TakenSinceStop <= IF at_stop.pc = "waiting" THEN 1 ELSE 0)
    /\ (FlagCleared ~> ConsumerOver)

\* the flag was cleared under a waiting consumer, which took one more
\* message, processed it and returned while the process was still there
C24_Witness ==
    /\ FlagCleared
    /\ at_stop.pc = "waiting"
    /\ TakenSinceStop = 1
    /\ consumer.pc = "exited"
    /\ message_queue = <<>>
    /\ Alive

-----------------------------------------------------------------------------
(* Properties of the escalation fan-out *)

\* the escalation job of call c is created and has not ended
Live(c) == job[c].pc \in {"created", "sleeping", "posting"}

\* what one send_notification call has handed to the transport with
\* success, plus every follow-up attempt of its job
Deliveries(c) == (IF ReturnedTrue(c) THEN 1 ELSE 0) + Len(followups[c])

\* the jobs send_notification calls have created stay within the calls that
\* delivered, one each, and a follow-up attempt creates none
NoFurtherEscalation ==
    /\ \A c \in Calls :
           /\ spawned[c] <= 1
           /\ Deliveries(c) <= 1 + (IF notifier = "FCMNotifier" THEN 8 ELSE 6)
           /\ spawned[c] = 1 => call[c].result
           /\ job[c].pc # "none" => spawned[c] = 1
    /\ Cardinality({c \in Calls : Live(c)})
           <= Cardinality({c \in Calls : ReturnedTrue(c)})

\* C25 as stated: every follow-up text contains FOREX or TRADE, and still a
\* follow-up spawns no escalation: at most 1 + cap deliveries per initial
\* delivery (cap 8 for FCMNotifier, 6 for FCMv1Notifier), and never more live
\* jobs than successful initial deliveries.
C25_MarkedFollowUpsDoNotEscalate ==
    /\ NoFurtherEscalation
    /\ \A c \in Calls : \A k \in 1..Len(followups[c]) :
           IsForexAlert(followups[c][k].text)

\* C25, amended: every follow-up would pass the escalation guard of its
\* notifier (FCMNotifier: its text contains FOREX or TRADE; FCMv1Notifier,
\* which escalates whatever the text, puts the marker in a follow-up only
\* when the base text has it), and still a follow-up spawns no escalation,
\* with the same two bounds.
C25_FollowUpsDoNotEscalate ==
    /\ NoFurtherEscalation
    /\ \A c \in Calls : \A k \in 1..Len(followups[c]) :
           /\ ShouldEscalate(notifier, duration, followups[c][k].text)
           /\ notifier = "FCMNotifier" \/ IsForexAlert(call[c].formatted_message)
                  => IsForexAlert(followups[c][k].text)

\* a job has made all 8 attempts of the voice profile while the job of a
\* later delivery is live
C25_Witness ==
    \E c, d \in Calls :
        /\ notifier = "FCMNotifier"
        /\ Deliveries(c) = 9
        /\ job[c].pc = "done"
        /\ Live(d)
        /\ followups[d] # <<>>

-----------------------------------------------------------------------------
(* Properties of the two counters *)

\* the message process_single_message is working on
InHand == IF cleanup.pc = "drain_process" THEN cleanup.msg ELSE consumer.msg

\* the messages whose send_notification call has returned True
DeliveredMsgs == {id \in 1..MaxMsgs : sends[id] # <<>> /\ sends[id][1] = "True"}

\* C26: 0 <= trading_signals_processed <= processed_messages in every state;
\* no step lowers a counter; processed_messages goes up, by one, exactly in
\* the steps in which send_notification returns True for a message (and
\* trading_signals_processed with it when the message is a trading message);
\* a failed notification or an exception changes neither.
C26_Counters ==
    /\ [](/\ 0 <= trading_signals_processed
          /\ trading_signals_processed <= processed_messages
          /\ processed_messages = Cardinality(DeliveredMsgs))
    /\ [][/\ processed_messages' \in {processed_messages, processed_messages + 1}
          /\ processed_messages' - processed_messages
                 = Cardinality(DeliveredMsgs' \ DeliveredMsgs)
          /\ trading_signals_processed' - trading_signals_processed
                 = IF processed_messages' # processed_messages /\ InHand.is_trading
                   THEN 1 ELSE 0
          /\ raised' # raised =>
                 /\ processed_messages' = processed_messages
                 /\ trading_signals_processed' = trading_signals_processed]_vars

\* a trading message has been delivered and counted twice over, a plain
\* message has failed and been counted nowhere
C26_Witness ==
    \E a, b \in 1..MaxMsgs :
        /\ sends[a] = <<"True">>
        /\ sends[b] # <<>> /\ sends[b][1] = "False"
        /\ processed_messages = 1
        /\ trading_signals_processed = 1
        /\ consumer.pc = "loop"

-----------------------------------------------------------------------------
(* Properties of the hand-off to process_single_message *)

\* the consumer is inside process_single_message
ConsumerProcessing == consumer.pc \in {"ai", "notify", "alert"}

\* cleanup's _process_remaining_messages is inside process_single_message
DrainProcessing == cleanup.pc = "drain_process"

QueuedIds == [k \in 1..Len(message_queue) |-> message_queue[k].id]

\* C27: the messages handed to process_single_message, followed by those
\* still queued, are the messages of handle_new_message in the order of
\* their arrival, each once (so none is handed over twice or out of order);
\* the message being processed is the last one handed over; the consumer
\* and cleanup's drain are never both inside process_single_message.
C27_OneAtATimeInOrder ==
    /\ handled \o QueuedIds = [k \in 1..arrived |-> k]
    /\ ConsumerProcessing =>
           handled # <<>> /\ consumer.msg.id = handled[Len(handled)]
    /\ DrainProcessing =>
           handled # <<>> /\ cleanup.msg.id = handled[Len(handled)]
    /\ ~(ConsumerProcessing /\ DrainProcessing)

\* the second message is being processed, the first one is done with
C27_Witness ==
    /\ handled = <<1, 2>>
    /\ consumer.pc = "notify"
    /\ consumer.msg.id = 2
    /\ sends[1] # <<>>
    /\ sends[2] = <<>>

-----------------------------------------------------------------------------
(* Properties of the confidence threshold *)

\* instrument and direction present, and a price among entry_price,
\* stop_loss and take_profit
CompleteRecord(signal) ==
    /\ signal.instrument # None
    /\ signal.direction # None
    /\ \/ signal.entry_price # None
       \/ signal.stop_loss # None
       \/ signal.take_profit # <<>>

\* C28: for every record returned by extract_trading_signal, instrument,
\* direction and at least one price present imply a confidence of at least
\* 0.6; is_valid_signal equals that conjunction, the threshold deciding
\* nothing; and every valid record has a confidence of at least 0.6.
C28_ThresholdNeverDecides ==
    Extracted =>
        /\ CompleteRecord(result) => result.confidence >= 60
        /\ result.is_valid_signal = CompleteRecord(result)
        /\ result.is_valid_signal => result.confidence >= 60

-----------------------------------------------------------------------------
(* Properties of the failure alert *)

\* C29: a message causes at most two send_notification calls: its own, and,
\* only after that one returned False and only with a notifier that has
\* send_urgent_alert (FCMNotifier, FCMv1Notifier), the one made by the
\* failure alert; the alert is attempted when nothing but the failed call
\* has happened for the message, and whatever it answers, processing of the
\* message is over.
C29_FailureHandlingBounded ==
    /\ \A id \in 1..MaxMsgs :
           /\ Len(sends[id]) <= 2
           /\ Len(sends[id]) = 2 =>
                  /\ sends[id][1] = "False"
                  /\ notifier \in {"FCMNotifier", "FCMv1Notifier"}
    /\ consumer.pc = "alert" => sends[consumer.msg.id] = <<"False">>
    /\ ConsumerProcessing => Len(sends[consumer.msg.id]) < 2

\* the delivery of the first message failed, so did its failure alert, and
\* the consumer has gone on to the second message
C29_Witness ==
    /\ sends[1] = <<"False", "False">>
    /\ handled = <<1, 2>>
    /\ ConsumerProcessing
    /\ consumer.msg.id = 2

-----------------------------------------------------------------------------
(* Properties of cleanup *)

IsBodyEvent(e) == e # "call"

IsCall(e) == e = "call"

\* what the body of cleanup has done so far, in the order it did it
BodyEvents == SelectSeq(cleanup.log, IsBodyEvent)

\* the number of times cleanup has been called
CleanupCalls == Len(SelectSeq(cleanup.log, IsCall))

\* the place of a step in the body of cleanup
BodyRank(e) == CASE e = "stop_scraper" -> 1 [] e = "drain" -> 2 [] OTHER -> 3

\* C30: however often cleanup is called, the scraper stop, the drain and the
\* shutdown alert happen at most once each and in that order, the body is
\* entered by at most one call, and once cleanup has been called is_running
\* is false.
C30_CleanupBodyOnce ==
    /\ \A i, j \in 1..Len(BodyEvents) :
           i < j => BodyRank(BodyEvents[i]) < BodyRank(BodyEvents[j])
    /\ cleanup.pc # "idle" => CleanupCalls = 1
    /\ CleanupCalls > 0 => ~is_running
    /\ main = "exited" => CleanupCalls > 0 /\ cleanup.pc = "idle"

\* cleanup was called from the finally clause of start_monitoring and again
\* from the KeyboardInterrupt handler of main(), and the process has exited
C30_Witness ==
    /\ CleanupCalls = 2
    /\ cleanup.pc = "idle"
    /\ main = "exited"
    /\ ~is_running

====
